---- MODULE Spec2Model ----
(***************************************************************************)
(* Model of the verifiable-storage server (filesystem backend), its Merkle *)
(* tree library and the client's upload / download-and-verify protocol.    *)
(*                                                                         *)
(* Hashes are symbolic terms: hash_leaf(d) = <<"L", d>> and                *)
(* hash_pair(l, r) = <<"N", l, r>>.  Terms are equal only when built the   *)
(* same way, which is the collision-freeness and domain separation that    *)
(* SHA-256 with the 0x00 / 0x01 prefixes is assumed to give.               *)
(*                                                                         *)
(* File contents are tagged tuples, the tag telling what the bytes are:    *)
(*   <<"absent">>      no such file                                        *)
(*   <<"raw", s>>      bytes that are not JSON (s = "" is the empty file)  *)
(*   <<"enc", f, b, p>> AES-GCM ciphertext made by the client              *)
(*   <<"obj">>         the JSON text {}                                    *)
(*   <<"meta", names>> the JSON text {"filenames": [names]}                *)
(*   <<"lh", m>>       the JSON text {filename: hex, ...}                  *)
(*   <<"tree", t>>     the JSON text of a serialised MerkleTree            *)
(***************************************************************************)
EXTENDS Integers, Sequences, FiniteSets, TLC

VARIABLES
    fs,      \* data_dir: directory -> (file name -> content)
    lock,    \* holder of the advisory lock on each directory's .lock file
    up,      \* upload handler executions (one record per handler slot)
    dn,      \* download handler executions
    cl,      \* the client program (upload_from_directory, download_and_verify)
    nUp,     \* upload requests accepted so far
    nDn,     \* download requests accepted so far
    nEnv,    \* out-of-band events (tampering, forged responses) so far
    gh,      \* history variables used only to state properties
    now,     \* the server clock (SystemTime::now), in milliseconds
    sent,    \* requests seen on the network, which anyone can send again
    rq,      \* the authenticated request being handled (handlers::upload / download)
    pf       \* the last call of a library function: its arguments and result

vars == <<fs, lock, up, dn, cl, nUp, nDn, nEnv, gh, now, sent, rq, pf>>

\* ---------------------------------------------------------------- bounds

MaxUploads == 2
MaxDownloads == 1
MaxEnv == 2
MaxPathLen == 1
MaxSeqUploads == 3
MaxRequests == 2
MaxReplays == 1
MaxLeaves == 4

\* ---------------------------------------------------------------- domains

Uploaders == {"u1", "u2"}
Downloaders == {"d1"}
ClientIds == {"cA", "cB"}

NoOne == "none"
Absent == <<"absent">>
EmptyFile == <<"raw", "">>
EmptyObject == <<"obj">>

MetadataName == "metadata.json"
LeafHashesName == "leaf_hashes.json"
MerkleTreeName == "merkle_tree.json"
LockName == ".lock"
PublicKeyName == "public_key.hex"

\* Names a request may carry; all of them pass validate_filename.
FileNames == {"a.txt", "b.txt", MetadataName, MerkleTreeName}
\* Every name that can exist in a batch directory.
DirNames ==
    FileNames \cup {"c.txt", MetadataName, LeafHashesName, MerkleTreeName, LockName, PublicKeyName,
                    "a{256}"}

BatchIds == {"b1", "./b1", "b2"}
\* Batch ids of authenticated requests: any string of 1 to 255 characters passes
\* validate_fields.
AuthBatchIds == {"b1", ".", "../cB"}
UploadContents == {<<"raw", "v1">>, <<"raw", "v2">>, EmptyObject}

\* ---------------------------------------------------------------- bytes and paths

\* str.as_bytes(): the ASCII codes of the names the model uses.
Bytes(s) ==
    CASE s = "a.txt" -> <<97, 46, 116, 120, 116>>
      [] s = "b.txt" -> <<98, 46, 116, 120, 116>>
      [] s = "c.txt" -> <<99, 46, 116, 120, 116>>
      [] s = ".lock" -> <<46, 108, 111, 99, 107>>
      [] s = ".." -> <<46, 46>>
      [] s = "public_key.hex" ->
            <<112, 117, 98, 108, 105, 99, 95, 107, 101, 121, 46, 104, 101, 120>>
      [] s = "metadata.json" ->
            <<109, 101, 116, 97, 100, 97, 116, 97, 46, 106, 115, 111, 110>>
      [] s = "merkle_tree.json" ->
            <<109, 101, 114, 107, 108, 101, 95, 116, 114, 101, 101, 46, 106, 115, 111, 110>>
      [] s = "leaf_hashes.json" ->
            <<108, 101, 97, 102, 95, 104, 97, 115, 104, 101, 115, 46, 106, 115, 111, 110>>
      [] s = "" -> <<>>
      [] s = "." -> <<46>>
      [] s = "a/b" -> <<97, 47, 98>>
      [] s = "a\\b" -> <<97, 92, 98>>
      [] s = "a<NUL>b" -> <<97, 0, 98>>
      [] s = "a{256}" -> [i \in 1..256 |-> 97]
      [] s = "b1" -> <<98, 49>>
      [] s = "b2" -> <<98, 50>>
      [] s = "./b1" -> <<46, 47, 98, 49>>
      [] s = "../cB" -> <<46, 46, 47, 99, 66>>
      [] s = "a" -> <<97>>
      [] s = "ab" -> <<97, 98>>
      [] s = "b" -> <<98>>
      [] s = "bb" -> <<98, 98>>

\* Ord for String / str: byte-lexicographic comparison.
RECURSIVE LexLess(_, _)
LexLess(x, y) ==
    IF x = <<>> THEN y # <<>>
    ELSE IF y = <<>> THEN FALSE
    ELSE IF Head(x) < Head(y) THEN TRUE
    ELSE IF Head(x) > Head(y) THEN FALSE
    ELSE LexLess(Tail(x), Tail(y))

StrLess(a, b) == LexLess(Bytes(a), Bytes(b))

RECURSIVE InsertSorted(_, _)
InsertSorted(sorted, x) ==
    IF sorted = <<>> THEN <<x>>
    ELSE IF StrLess(x, Head(sorted)) THEN <<x>> \o sorted
    ELSE <<Head(sorted)>> \o InsertSorted(Tail(sorted), x)

\* slice::sort / sort_by_key on strings.
RECURSIVE SortStrings(_)
SortStrings(seq) ==
    IF seq = <<>> THEN <<>>
    ELSE InsertSorted(SortStrings(Tail(seq)), Head(seq))

RECURSIVE SetToSortedSeq(_)
SetToSortedSeq(S) ==
    IF S = {} THEN <<>>
    ELSE LET x == CHOOSE y \in S : \A z \in S : z = y \/ StrLess(y, z)
         IN <<x>> \o SetToSortedSeq(S \ {x})

Range(seq) == {seq[i] : i \in 1..Len(seq)}
Contains(seq, x) == x \in Range(seq)
IsSortedNoDup(seq) == \A i \in 1..(Len(seq) - 1) : StrLess(seq[i], seq[i + 1])
\* Iterator::position, 0-based; -1 when absent.
Position(seq, x) ==
    IF Contains(seq, x) THEN (CHOOSE i \in 1..Len(seq) : seq[i] = x /\ \A j \in 1..(i - 1) : seq[j] # x) - 1
    ELSE -1

\* The path components of a batch_id as the operating system reads them.
Components(batch_id) ==
    CASE batch_id = "b1" -> <<"b1">>
      [] batch_id = "b2" -> <<"b2">>
      [] batch_id = "./b1" -> <<".", "b1">>
      [] batch_id = "." -> <<".">>
      [] batch_id = "../cB" -> <<"..", "cB">>

\* Path resolution: "." names the directory itself, ".." its parent.
RECURSIVE Resolve(_, _)
Resolve(done, rest) ==
    IF rest = <<>> THEN done
    ELSE IF Head(rest) = "." THEN Resolve(done, Tail(rest))
    ELSE IF Head(rest) = ".." THEN
        Resolve(IF done = <<>> THEN <<>> ELSE SubSeq(done, 1, Len(done) - 1), Tail(rest))
    ELSE Resolve(Append(done, Head(rest)), Tail(rest))

\* FilesystemStorage::batch_dir: data_dir.join(client_id).join(batch_id).
batch_dir(client_id, batch_id) == Resolve(<<client_id>>, Components(batch_id))

\* FilesystemStorage::client_dir: data_dir.join(client_id).
client_dir(client_id) == <<client_id>>

Dirs ==
    {batch_dir(c, b) : c \in ClientIds, b \in BatchIds \cup AuthBatchIds}
        \cup {client_dir(c) : c \in ClientIds}

\* ---------------------------------------------------------------- hashing

hash_leaf(data) == <<"L", data>>
\* A leaf hash without the 0x00 domain prefix.
hash_data_plain(data) == <<"H", data>>

hash_data(data) == <<"L", data>>
hash_pair(left, right) == <<"N", left, right>>
proof_hash_pair(left, right) == <<"N", left, right>>
hex_encode(h) == <<"hex", h>>
hex_decode(s) == IF s[1] = "hex" THEN [ok |-> TRUE, val |-> s[2]] ELSE [ok |-> FALSE, val |-> s]

\* ---------------------------------------------------------------- Merkle tree

\* A pairing loop that hands the last node of an odd-length level up unpaired.
NextLevel_promote(cur) ==
    [i \in 1..((Len(cur) + 1) \div 2) |->
        IF 2 * i <= Len(cur) THEN hash_pair(cur[2 * i - 1], cur[2 * i])
        ELSE cur[2 * i - 1]]

\* A pairing loop that hashes the left node of each pair with itself.
NextLevel_left(cur) ==
    [i \in 1..((Len(cur) + 1) \div 2) |-> hash_pair(cur[2 * i - 1], cur[2 * i - 1])]

\* One pass of the pairing loop: adjacent nodes are hashed together and the last
\* node of an odd-length level is paired with itself.
NextLevel(cur) ==
    [i \in 1..((Len(cur) + 1) \div 2) |->
        IF 2 * i <= Len(cur) THEN hash_pair(cur[2 * i - 1], cur[2 * i])
        ELSE hash_pair(cur[2 * i - 1], cur[2 * i - 1])]

\* The while loop of both constructors: the levels from the leaves to the root.
RECURSIVE BuildLevels(_)
BuildLevels(cur) ==
    IF Len(cur) <= 1 THEN <<cur>>
    ELSE <<cur>> \o BuildLevels(NextLevel(cur))

\* MerkleTree::from_leaf_hashes; ok = FALSE is Err(EmptyData).
from_leaf_hashes(leaf_hashes) ==
    IF leaf_hashes = <<>> THEN [ok |-> FALSE, root |-> Absent, leaves |-> <<>>, levels |-> <<>>]
    ELSE LET lv == BuildLevels(leaf_hashes)
         IN [ok |-> TRUE, root |-> lv[Len(lv)][1], leaves |-> leaf_hashes, levels |-> lv]

\* MerkleTree::from_data.
from_data(data) ==
    IF data = <<>> THEN [ok |-> FALSE, root |-> Absent, leaves |-> <<>>, levels |-> <<>>]
    ELSE LET lf == [i \in 1..Len(data) |-> hash_data(data[i])]
             lv == BuildLevels(lf)
         IN [ok |-> TRUE, root |-> lv[Len(lv)][1], leaves |-> lf, levels |-> lv]

num_leaves(tree) == Len(tree.leaves)

\* A proof loop that puts every sibling on the right.
RECURSIVE ProofPath_right(_, _, _)
ProofPath_right(tree, level, idx) ==
    IF level >= Len(tree.levels) THEN <<>>
    ELSE LET sibling == IF idx % 2 = 0 THEN idx + 1 ELSE idx - 1
             node == IF sibling < Len(tree.levels[level])
                     THEN [hash |-> tree.levels[level][sibling + 1], is_left |-> FALSE]
                     ELSE [hash |-> tree.levels[level][idx + 1], is_left |-> FALSE]
         IN <<node>> \o ProofPath_right(tree, level + 1, idx \div 2)

\* A proof loop that puts the duplicate of an unpaired last node on the left.
RECURSIVE ProofPath_self_left(_, _, _)
ProofPath_self_left(tree, level, idx) ==
    IF level >= Len(tree.levels) THEN <<>>
    ELSE LET sibling == IF idx % 2 = 0 THEN idx + 1 ELSE idx - 1
             node == IF sibling < Len(tree.levels[level])
                     THEN [hash |-> tree.levels[level][sibling + 1], is_left |-> sibling < idx]
                     ELSE [hash |-> tree.levels[level][idx + 1], is_left |-> TRUE]
         IN <<node>> \o ProofPath_self_left(tree, level + 1, idx \div 2)

\* The for loop of MerkleTree::generate_proof from `level` (1 is the leaf level)
\* upward; idx is the 0-based index of the current node.
RECURSIVE ProofPath(_, _, _)
ProofPath(tree, level, idx) ==
    IF level >= Len(tree.levels) THEN <<>>
    ELSE LET sibling == IF idx % 2 = 0 THEN idx + 1 ELSE idx - 1
             node == IF sibling < Len(tree.levels[level])
                     THEN [hash |-> tree.levels[level][sibling + 1], is_left |-> sibling < idx]
                     ELSE [hash |-> tree.levels[level][idx + 1], is_left |-> FALSE]
         IN <<node>> \o ProofPath(tree, level + 1, idx \div 2)

\* A generate_proof whose bound check lets the index one past the last leaf through.
generate_proof_off_by_one(tree, leaf_index) ==
    IF leaf_index < 0 \/ leaf_index > Len(tree.leaves)
    THEN [ok |-> FALSE, leaf_index |-> leaf_index, leaf_hash |-> Absent, path |-> <<>>]
    ELSE [ok |-> TRUE, leaf_index |-> leaf_index,
          leaf_hash |-> IF leaf_index < Len(tree.leaves) THEN tree.leaves[leaf_index + 1]
                        ELSE Absent,
          path |-> IF leaf_index < Len(tree.leaves) THEN ProofPath(tree, 1, leaf_index)
                   ELSE <<>>]

\* MerkleTree::generate_proof; ok = FALSE is Err(InvalidLeafIndex).
generate_proof(tree, leaf_index) ==
    IF leaf_index < 0 \/ leaf_index >= Len(tree.leaves)
    THEN [ok |-> FALSE, leaf_index |-> leaf_index, leaf_hash |-> Absent, path |-> <<>>]
    ELSE [ok |-> TRUE, leaf_index |-> leaf_index, leaf_hash |-> tree.leaves[leaf_index + 1],
          path |-> ProofPath(tree, 1, leaf_index)]

\* A compute_root that ignores is_left and keeps the current hash on the left.
RECURSIVE compute_root_left(_, _)
compute_root_left(current_hash, path) ==
    IF path = <<>> THEN current_hash
    ELSE compute_root_left(proof_hash_pair(current_hash, Head(path).hash), Tail(path))

\* MerkleProof::compute_root.
RECURSIVE compute_root(_, _)
compute_root(current_hash, path) ==
    IF path = <<>> THEN current_hash
    ELSE compute_root(
            IF Head(path).is_left THEN proof_hash_pair(Head(path).hash, current_hash)
            ELSE proof_hash_pair(current_hash, Head(path).hash),
            Tail(path))

\* ---------------------------------------------------------------- serialised forms

\* serde_json::from_str::<Map<String, Value>> in Metadata::load: any JSON object
\* parses; has tells whether the key "filenames" is present.
Metadata_load(content) ==
    CASE content[1] = "meta" -> [ok |-> TRUE, has |-> TRUE, filenames |-> content[2]]
      [] content[1] = "obj" -> [ok |-> TRUE, has |-> FALSE, filenames |-> <<>>]
      [] OTHER -> [ok |-> FALSE, has |-> FALSE, filenames |-> <<>>]

\* Metadata::insert_filename.
insert_filename(metadata, filename) ==
    IF Contains(metadata.filenames, filename)
    THEN [metadata EXCEPT !.has = TRUE]
    ELSE [metadata EXCEPT !.has = TRUE,
                          !.filenames = SortStrings(Append(metadata.filenames, filename))]

\* serde_json::to_string_pretty of the metadata map.
Metadata_to_json(metadata) ==
    IF metadata.has THEN <<"meta", metadata.filenames>> ELSE EmptyObject

\* Metadata::load_filenames = load, then extract_filenames (the key must be there).
Metadata_load_filenames(content) ==
    LET m == Metadata_load(content)
    IN [ok |-> m.ok /\ m.has, filenames |-> m.filenames]

EmptyMap == [n \in {} |-> Absent]

\* serde_json::from_str::<HashMap<String, String>> of leaf_hashes.json.
LeafHashes_load(content) ==
    CASE content[1] = "lh" -> [ok |-> TRUE, map |-> content[2]]
      [] content[1] = "obj" -> [ok |-> TRUE, map |-> EmptyMap]
      [] OTHER -> [ok |-> FALSE, map |-> EmptyMap]

\* HashMap::insert(filename, hex::encode(leaf_hash)).
LeafHashes_insert(map, filename, leaf_hash) ==
    [n \in (DOMAIN map) \cup {filename} |->
        IF n = filename THEN hex_encode(leaf_hash) ELSE map[n]]

LeafHashes_to_json(map) == <<"lh", map>>

\* The entries sorted by filename and hex-decoded: all_leaf_hashes.
SortedLeafHashes(map) ==
    LET names == SetToSortedSeq(DOMAIN map)
    IN [i \in 1..Len(names) |-> hex_decode(map[names[i]]).val]

Tree_to_json(tree) == <<"tree", tree>>

\* serde_json::from_str::<MerkleTree> in load_merkle_tree.
Tree_load(content) ==
    IF content[1] = "tree" THEN [ok |-> TRUE, tree |-> content[2]]
    ELSE [ok |-> FALSE, tree |-> from_leaf_hashes(<<>>)]

\* ---------------------------------------------------------------- request validation

\* common::file_utils::validate_filename on the bytes of the name.  With no
\* separator in it and the name not "." or "..", Path::file_name() is the name itself.
validate_filename(filename) ==
    LET b == Bytes(filename)
    IN /\ b # <<>>
       /\ 0 \notin Range(b)
       /\ 47 \notin Range(b)
       /\ 92 \notin Range(b)
       /\ b # <<46>>
       /\ b # <<46, 46>>

\* UploadForm::validate_fields: the byte lengths of filename and batch_id.  The
\* file_hash, signature and public_key of the model's requests always have the
\* required 64, 128 and 64 characters.
validate_fields(filename, batch_id) ==
    /\ ~(Len(Bytes(filename)) = 0 \/ Len(Bytes(filename)) > 255)
    /\ ~(Len(Bytes(batch_id)) = 0 \/ Len(Bytes(batch_id)) > 255)

\* ---------------------------------------------------------------- storage state

EmptyDir == [n \in DirNames |-> Absent]
NoTree == from_leaf_hashes(<<>>)

\* The data of a batch directory: everything but the lock file.
DataNames == DirNames \ {LockName}
DataOf(ds) == [n \in DataNames |-> ds[n]]

IdleUp ==
    [pc |-> "idle", client_id |-> "cA", batch_id |-> "b1", filename |-> "a.txt",
     content |-> Absent, leaf_hash |-> Absent, buf |-> Absent, leaf_hashes |-> EmptyMap,
     result |-> "none", id |-> 0, pre |-> EmptyDir, post |-> EmptyDir, overlapped |-> FALSE]

NoResp == [status |-> 0, filename |-> "", file_hash |-> Absent, file_content |-> Absent,
           merkle_proof |-> <<>>]

IdleDn ==
    [pc |-> "idle", client_id |-> "cA", batch_id |-> "b1", filename |-> "a.txt",
     filenames |-> <<>>, content |-> Absent, resp |-> NoResp,
     clean |-> FALSE, expect |-> Absent, pre |-> EmptyDir, ov |-> {}, ovreq |-> <<>>,
     root |-> Absent]

UpDir(u) == batch_dir(up[u].client_id, up[u].batch_id)
DnDir(d) == batch_dir(dn[d].client_id, dn[d].batch_id)

\* ---------------------------------------------------------------- upload: pure steps

\* The metadata.json text written by the "Update metadata" step, or ok = FALSE when
\* Metadata::load fails.
MetadataStep(ds, filename) ==
    LET md == IF ds[MetadataName] = Absent
              THEN [ok |-> TRUE, has |-> FALSE, filenames |-> <<>>]
              ELSE Metadata_load(ds[MetadataName])
    IN [ok |-> md.ok, json |-> Metadata_to_json(insert_filename(md, filename))]

\* The leaf-hash map after the "Store leaf hash" step, or ok = FALSE when the file
\* does not parse.
LeafHashStep(ds, filename, leaf_hash) ==
    LET lh == IF ds[LeafHashesName] = Absent
              THEN [ok |-> TRUE, map |-> EmptyMap]
              ELSE LeafHashes_load(ds[LeafHashesName])
    IN [ok |-> lh.ok, map |-> LeafHashes_insert(lh.map, filename, leaf_hash)]

\* The tree built from all leaf hashes sorted by filename.
TreeStep(leaf_hashes) == from_leaf_hashes(SortedLeafHashes(leaf_hashes))

\* store_file_and_update_tree run without interruption on directory state ds: the
\* state it leaves and whether it returned Ok.  An early return keeps the writes
\* made before it.
AtomicStore(ds, filename, content, leaf_hash) ==
    LET d1 == [ds EXCEPT ![filename] = content]
        m == MetadataStep(d1, filename)
        d2 == [d1 EXCEPT ![MetadataName] = m.json]
        l == LeafHashStep(d2, filename, leaf_hash)
        d3 == [d2 EXCEPT ![LeafHashesName] = LeafHashes_to_json(l.map)]
        t == TreeStep(l.map)
        d4 == [d3 EXCEPT ![MerkleTreeName] = Tree_to_json(t)]
    IN IF ~m.ok THEN [ok |-> FALSE, ds |-> d1]
       ELSE IF ~l.ok THEN [ok |-> FALSE, ds |-> d2]
       ELSE IF ~t.ok THEN [ok |-> FALSE, ds |-> d3]
       ELSE [ok |-> TRUE, ds |-> d4]

\* ---------------------------------------------------------------- download: pure steps

\* handlers::proof::prepare_file_data and proof_to_json.
prepare_file_data(content) ==
    [file_hash |-> hex_encode(hash_leaf(content)), file_content |-> <<"b64", content>>]
proof_to_json(path) ==
    [i \in 1..Len(path) |-> [hash |-> hex_encode(path[i].hash), is_left |-> path[i].is_left]]

\* load_batch_filenames and the membership test: status 0 means "go on".
FilenamesStep(ds, filename) ==
    LET r == IF ds[MetadataName] = Absent THEN [ok |-> FALSE, filenames |-> <<>>]
             ELSE Metadata_load_filenames(ds[MetadataName])
    IN IF ~r.ok THEN [status |-> 404, filenames |-> <<>>]
       ELSE IF ~Contains(r.filenames, filename) THEN [status |-> 404, filenames |-> <<>>]
       ELSE [status |-> 0, filenames |-> r.filenames]

\* file_exists, then read_file.
ReadStep(ds, filename) ==
    IF ds[filename] = Absent THEN [status |-> 404, content |-> Absent]
    ELSE [status |-> 0, content |-> ds[filename]]

\* A proof generation that rebuilds the tree from the stored bytes of the files.
server_generate_proof_from_bytes(ds, filenames, filename) ==
    LET sorted_filenames == SortStrings(filenames)
        tree == from_data([i \in 1..Len(sorted_filenames) |-> ds[sorted_filenames[i]]])
        file_index == Position(sorted_filenames, filename)
        proof == generate_proof(tree, file_index)
    IN IF ~tree.ok \/ ~proof.ok THEN [status |-> 500, path |-> <<>>]
       ELSE [status |-> 200, path |-> proof.path]

\* A proof generation without the leaf-count check.
server_generate_proof_no_check(ds, filenames, filename) ==
    LET sorted_filenames == SortStrings(filenames)
        t == IF ds[MerkleTreeName] = Absent THEN [ok |-> FALSE, tree |-> NoTree]
             ELSE Tree_load(ds[MerkleTreeName])
        file_index == Position(sorted_filenames, filename)
        proof == generate_proof(t.tree, file_index)
    IN IF ~t.ok THEN [status |-> 500, path |-> <<>>]
       ELSE IF file_index < 0 THEN [status |-> 404, path |-> <<>>]
       ELSE IF ~proof.ok THEN [status |-> 500, path |-> <<>>]
       ELSE [status |-> 200, path |-> proof.path]

\* bin/server/src/proof.rs generate_proof: the cached tree, the staleness check and
\* the proof for the position of filename in the sorted filename list.
server_generate_proof(ds, filenames, filename) ==
    LET sorted_filenames == SortStrings(filenames)
        t == IF ds[MerkleTreeName] = Absent THEN [ok |-> FALSE, tree |-> NoTree]
             ELSE Tree_load(ds[MerkleTreeName])
        file_index == Position(sorted_filenames, filename)
        proof == generate_proof(t.tree, file_index)
    IN IF ~t.ok THEN [status |-> 500, path |-> <<>>]
       ELSE IF num_leaves(t.tree) # Len(sorted_filenames) THEN [status |-> 500, path |-> <<>>]
       ELSE IF file_index < 0 THEN [status |-> 404, path |-> <<>>]
       ELSE IF ~proof.ok THEN [status |-> 500, path |-> <<>>]
       ELSE [status |-> 200, path |-> proof.path]

\* The DownloadResponse built from the file content read and the proof.
DownloadResponseOf(filename, content, pr) ==
    IF pr.status # 200 THEN [NoResp EXCEPT !.status = pr.status]
    ELSE [status |-> 200, filename |-> filename,
          file_hash |-> prepare_file_data(content).file_hash,
          file_content |-> prepare_file_data(content).file_content,
          merkle_proof |-> proof_to_json(pr.path)]

\* The download handler run without interruption on directory state ds.
AtomicDownload(ds, filename) ==
    LET fnr == FilenamesStep(ds, filename)
        rd == ReadStep(ds, filename)
    IN IF fnr.status # 0 THEN [NoResp EXCEPT !.status = fnr.status]
       ELSE IF rd.status # 0 THEN [NoResp EXCEPT !.status = rd.status]
       ELSE DownloadResponseOf(filename, rd.content,
                               server_generate_proof(ds, fnr.filenames, filename))

\* ---------------------------------------------------------------- initial state

\* The server clock at start, in milliseconds since the epoch.
ClockStart == 1000 * 1000

\* No request is in the authenticated handlers.
NoReq ==
    [kind |-> "none", client_id |-> "", public_key |-> "", filename |-> "", batch_id |-> "",
     content |-> Absent, file_hash |-> Absent, timestamp |-> 0, signature |-> Absent]
IdleRq ==
    [pc |-> "idle", req |-> NoReq, status |-> 0, fail |-> "", client_id |-> "",
     is_new |-> FALSE, dup |-> FALSE, at |-> 0, pre |-> <<>>, n |-> 0, replays |-> 0]

\* No library function has been called.
NoCall == [op |-> "none"]

\* The client before upload_from_directory.
ClientStart ==
    [pc |-> "start", files |-> <<>>, i |-> 0, root_hash |-> Absent, want |-> "",
     verdict |-> "none", saved |-> Absent, env |-> {}, sub |-> "", tampered |-> Absent]

Init ==
    /\ fs = [d \in Dirs |-> EmptyDir]
    /\ lock = [d \in Dirs |-> NoOne]
    /\ up = [u \in Uploaders |-> IdleUp]
    /\ dn = [d \in Downloaders |-> IdleDn]
    /\ cl = ClientStart
    /\ nUp = 0
    /\ nDn = 0
    /\ nEnv = 0
    /\ now = ClockStart
    /\ sent = {}
    /\ rq = IdleRq
    /\ pf = NoCall
    /\ gh = [uploaded |-> [d \in Dirs |-> {}],
             written |-> [d \in Dirs |-> {}],
             committed |-> [d \in Dirs |-> [f \in DirNames |-> Absent]],
             last |-> [d \in Dirs |-> "none"]]

\* ---------------------------------------------------------------- upload handler

Active(u) == up[u].pc # "idle"

\* handlers::upload up to the storage call: the fields are validated, the hash of
\* the content is recomputed (computed_hash) and handed on as the leaf hash.  The
\* handler names the storage call store_file_with_metadata(client_id, batch_id,
\* filename, content); the filesystem backend's operation with that effect is
\* store_file_and_update_tree, which the steps below follow.
UploadBegin(u, c, b, f, v) ==
    LET dir == batch_dir(c, b)
        others == {o \in Uploaders \ {u} : Active(o) /\ UpDir(o) = dir}
    IN /\ ~Active(u)
       /\ validate_filename(f)
       /\ nUp' = nUp + 1
       /\ up' = [o \in Uploaders |->
                   IF o = u THEN [IdleUp EXCEPT !.pc = "lock", !.client_id = c, !.batch_id = b,
                                                !.filename = f, !.content = v,
                                                !.leaf_hash = hash_leaf(v), !.id = nUp + 1,
                                                !.overlapped = others # {}]
                   ELSE IF o \in others THEN [up[o] EXCEPT !.overlapped = TRUE]
                   ELSE up[o]]
       /\ dn' = [d \in Downloaders |->
                   IF dn[d].pc # "idle" /\ DnDir(d) = dir
                   THEN [dn[d] EXCEPT !.clean = FALSE, !.ov = @ \cup {nUp + 1},
                                      !.ovreq = <<f, v>>]
                   ELSE dn[d]]
       /\ gh' = [gh EXCEPT !.uploaded[dir] = @ \cup {v}, !.committed[dir][f] = Absent]
       /\ UNCHANGED <<fs, lock>>

\* A return that leaves the batch lock with the returning upload.
Return_locked(u, res, newds) ==
    /\ up' = [up EXCEPT ![u] = [@ EXCEPT !.pc = "idle", !.result = res, !.buf = Absent,
                                         !.leaf_hashes = EmptyMap, !.post = newds,
                                         !.pre = IF up[u].pc = "lock" THEN newds ELSE @]]
    /\ lock' = lock
    /\ gh' = [gh EXCEPT !.last[UpDir(u)] = res,
                        !.committed[UpDir(u)][up[u].filename] =
                            IF res = "ok" THEN up[u].content ELSE @]

\* The return of store_file_and_update_tree and of the handler: LockGuard is
\* dropped, the response is 200 for Ok and 500 for Err.  newds is the directory as
\* the returning step leaves it.
Return(u, res, newds) ==
    /\ up' = [up EXCEPT ![u] = [@ EXCEPT !.pc = "idle", !.result = res, !.buf = Absent,
                                         !.leaf_hashes = EmptyMap, !.post = newds,
                                         !.pre = IF up[u].pc = "lock" THEN newds ELSE @]]
    /\ lock' = [lock EXCEPT ![UpDir(u)] = IF @ = u THEN NoOne ELSE @]
    /\ gh' = [gh EXCEPT !.last[UpDir(u)] = res,
                        !.committed[UpDir(u)][up[u].filename] =
                            IF res = "ok" THEN up[u].content ELSE @]

\* create_dir_all, open(.lock, create) and lock_exclusive, which blocks while
\* another handle holds the lock.
AcquireLock(u) ==
    /\ up[u].pc = "lock"
    /\ lock[UpDir(u)] = NoOne
    /\ lock' = [lock EXCEPT ![UpDir(u)] = u]
    /\ fs' = [fs EXCEPT ![UpDir(u)][LockName] = IF @ = Absent THEN EmptyFile ELSE @]
    /\ up' = [up EXCEPT ![u].pc = "file", ![u].pre = fs[UpDir(u)]]
    /\ UNCHANGED <<dn, cl, nUp, nDn, nEnv, gh, now, sent, rq, pf>>

\* write_file_atomic, first half: File::create truncates the target.
StoreFileCreate(u) ==
    /\ up[u].pc = "file"
    /\ fs' = [fs EXCEPT ![UpDir(u)][up[u].filename] = EmptyFile]
    /\ up' = [up EXCEPT ![u].pc = "file_w", ![u].buf = up[u].content]
    /\ UNCHANGED <<lock, dn, cl, nUp, nDn, nEnv, gh, now, sent, rq, pf>>

\* write_file_atomic, second half: write_all and sync_all.
StoreFileWrite(u) ==
    /\ up[u].pc = "file_w"
    /\ fs' = [fs EXCEPT ![UpDir(u)][up[u].filename] = up[u].buf]
    /\ up' = [up EXCEPT ![u].pc = "meta", ![u].buf = Absent]
    /\ gh' = [gh EXCEPT !.written[UpDir(u)] = @ \cup {up[u].filename}]
    /\ UNCHANGED <<lock, dn, cl, nUp, nDn, nEnv, now, sent, rq, pf>>

\* Metadata::load (or an empty map), insert_filename, and the File::create of
\* save_atomic; a metadata.json that does not parse ends the operation with Err.
UpdateMetadata(u) ==
    LET m == MetadataStep(fs[UpDir(u)], up[u].filename)
    IN /\ up[u].pc = "meta"
       /\ IF m.ok
          THEN /\ fs' = [fs EXCEPT ![UpDir(u)][MetadataName] = EmptyFile]
               /\ up' = [up EXCEPT ![u].pc = "meta_w", ![u].buf = m.json]
               /\ UNCHANGED <<lock, gh>>
          ELSE /\ Return(u, "err", fs[UpDir(u)])
               /\ UNCHANGED fs
       /\ UNCHANGED <<dn, cl, nUp, nDn, nEnv, now, sent, rq, pf>>

\* save_atomic: write_all and sync_all.
MetadataWrite(u) ==
    /\ up[u].pc = "meta_w"
    /\ fs' = [fs EXCEPT ![UpDir(u)][MetadataName] = up[u].buf]
    /\ up' = [up EXCEPT ![u].pc = "leaf", ![u].buf = Absent]
    /\ UNCHANGED <<lock, dn, cl, nUp, nDn, nEnv, gh, now, sent, rq, pf>>

\* leaf_hashes.json is read (or an empty map taken), the entry of the filename is
\* set, and the File::create of the write truncates the file.
StoreLeafHash(u) ==
    LET l == LeafHashStep(fs[UpDir(u)], up[u].filename, up[u].leaf_hash)
    IN /\ up[u].pc = "leaf"
       /\ IF l.ok
          THEN /\ fs' = [fs EXCEPT ![UpDir(u)][LeafHashesName] = EmptyFile]
               /\ up' = [up EXCEPT ![u].pc = "leaf_w", ![u].buf = LeafHashes_to_json(l.map),
                                   ![u].leaf_hashes = l.map]
               /\ UNCHANGED <<lock, gh>>
          ELSE /\ Return(u, "err", fs[UpDir(u)])
               /\ UNCHANGED fs
       /\ UNCHANGED <<dn, cl, nUp, nDn, nEnv, now, sent, rq, pf>>

LeafHashesWrite(u) ==
    /\ up[u].pc = "leaf_w"
    /\ fs' = [fs EXCEPT ![UpDir(u)][LeafHashesName] = up[u].buf]
    /\ up' = [up EXCEPT ![u].pc = "tree", ![u].buf = Absent]
    /\ UNCHANGED <<lock, dn, cl, nUp, nDn, nEnv, gh, now, sent, rq, pf>>

\* The leaf hashes sorted by filename, from_leaf_hashes, and the File::create of
\* the tree file.
BuildTree(u) ==
    LET t == TreeStep(up[u].leaf_hashes)
    IN /\ up[u].pc = "tree"
       /\ IF t.ok
          THEN /\ fs' = [fs EXCEPT ![UpDir(u)][MerkleTreeName] = EmptyFile]
               /\ up' = [up EXCEPT ![u].pc = "tree_w", ![u].buf = Tree_to_json(t)]
               /\ UNCHANGED <<lock, gh>>
          ELSE /\ Return(u, "err", fs[UpDir(u)])
               /\ UNCHANGED fs
       /\ UNCHANGED <<dn, cl, nUp, nDn, nEnv, now, sent, rq, pf>>

\* The tree file is written and the operation returns Ok.
TreeWrite(u) ==
    /\ up[u].pc = "tree_w"
    /\ fs' = [fs EXCEPT ![UpDir(u)][MerkleTreeName] = up[u].buf]
    /\ Return(u, "ok", fs'[UpDir(u)])
    /\ UNCHANGED <<dn, cl, nUp, nDn, nEnv, now, sent, rq, pf>>

\* Any of the fallible calls (create_dir_all, the lock, create, write_all, sync_all,
\* read_to_string) fails: the `?` returns Err with the writes made so far kept.
IoError(u) ==
    /\ up[u].pc \in {"lock", "file", "file_w", "meta", "meta_w", "leaf", "leaf_w", "tree", "tree_w"}
    /\ Return(u, "err", fs[UpDir(u)])
    /\ UNCHANGED <<fs, dn, cl, nUp, nDn, nEnv, now, sent, rq, pf>>

UploadStep(u) ==
    \/ AcquireLock(u)
    \/ StoreFileCreate(u)
    \/ StoreFileWrite(u)
    \/ UpdateMetadata(u)
    \/ MetadataWrite(u)
    \/ StoreLeafHash(u)
    \/ LeafHashesWrite(u)
    \/ BuildTree(u)
    \/ TreeWrite(u)

\* ---------------------------------------------------------------- download handler

\* handlers::download up to the first storage read (validation and signature
\* verification passed).
DownloadBegin(d, c, b, f) ==
    LET dir == batch_dir(c, b)
        running == {u \in Uploaders : Active(u) /\ UpDir(u) = dir}
        holder == lock[dir]
    IN /\ dn[d].pc = "idle"
       /\ validate_filename(f)
       /\ nDn' = nDn + 1
       /\ dn' = [dn EXCEPT ![d] =
                   [IdleDn EXCEPT !.pc = "filenames", !.client_id = c, !.batch_id = b,
                                  !.filename = f,
                                  !.clean = (running = {}),
                                  !.expect = gh.committed[dir][f],
                                  !.pre = IF holder # NoOne THEN up[holder].pre ELSE fs[dir],
                                  !.ov = {up[u].id : u \in running},
                                  !.ovreq = IF running = {} THEN <<>>
                                            ELSE LET u == CHOOSE x \in running : TRUE
                                                 IN <<up[u].filename, up[u].content>>]]
       /\ UNCHANGED <<fs, lock, up, nUp, nEnv, gh, now, pf>>

CachedRoot(ds) ==
    IF ds[MerkleTreeName] = Absent THEN Absent ELSE Tree_load(ds[MerkleTreeName]).tree.root

Respond(d, resp) ==
    dn' = [dn EXCEPT ![d].pc = "idle", ![d].resp = resp, ![d].filenames = <<>>,
                     ![d].content = Absent, ![d].root = CachedRoot(fs[DnDir(d)])]

LoadFilenames(d) ==
    LET r == FilenamesStep(fs[DnDir(d)], dn[d].filename)
    IN /\ dn[d].pc = "filenames"
       /\ IF r.status = 0
          THEN dn' = [dn EXCEPT ![d].pc = "read", ![d].filenames = r.filenames]
          ELSE Respond(d, [NoResp EXCEPT !.status = r.status])
       /\ UNCHANGED <<fs, lock, up, cl, nUp, nDn, nEnv, gh, now, sent, rq, pf>>

ReadFile(d) ==
    LET r == ReadStep(fs[DnDir(d)], dn[d].filename)
    IN /\ dn[d].pc = "read"
       /\ IF r.status = 0
          THEN dn' = [dn EXCEPT ![d].pc = "proof", ![d].content = r.content]
          ELSE Respond(d, [NoResp EXCEPT !.status = r.status])
       /\ UNCHANGED <<fs, lock, up, cl, nUp, nDn, nEnv, gh, now, sent, rq, pf>>

GenerateProof(d) ==
    /\ dn[d].pc = "proof"
    /\ Respond(d, DownloadResponseOf(dn[d].filename, dn[d].content,
                    server_generate_proof(fs[DnDir(d)], dn[d].filenames, dn[d].filename)))
    /\ UNCHANGED <<fs, lock, up, cl, nUp, nDn, nEnv, gh, now, sent, rq, pf>>

DownloadStep(d) ==
    \/ LoadFilenames(d)
    \/ ReadFile(d)
    \/ GenerateProof(d)

\* ---------------------------------------------------------------- specifications

UploadRequest(u, c, b, f, v) ==
    /\ nUp < MaxUploads
    /\ UploadBegin(u, c, b, f, v)
    /\ UNCHANGED <<cl, nDn, nEnv, now, sent, rq, pf>>
DownloadRequest(d, c, b, f) ==
    /\ nDn < MaxDownloads
    /\ DownloadBegin(d, c, b, f)
    /\ UNCHANGED <<cl, sent, rq>>

\* Uploads and downloads of one batch, no I/O failure.
Next ==
    \/ \E u \in Uploaders, f \in FileNames, v \in UploadContents :
          UploadRequest(u, "cA", "b1", f, v)
    \/ \E u \in Uploaders : UploadStep(u)
    \/ \E d \in Downloaders, f \in FileNames : DownloadRequest(d, "cA", "b1", f)
    \/ \E d \in Downloaders : DownloadStep(d)

Spec == Init /\ [][Next]_vars

\* ---------------------------------------------------------------- client

ClientBatch == "b1"
ClientNames == {"a.txt", "b.txt", MerkleTreeName}
PlainTexts == {"p1", "p2"}

\* The directories the client uploads: one or two regular files.
ClientDirectories ==
    {dir \in UNION {[N -> PlainTexts] : N \in SUBSET ClientNames} :
        Cardinality(DOMAIN dir) \in 1..2}

\* crypto::encrypt_file: AES-256-GCM under a key derived from the signing key and a
\* nonce derived from filename and batch id.
encrypt_file(filename, batch_id, plaintext) == <<"enc", filename, batch_id, plaintext>>

\* read_files_from_directory: every name is validated and the list is sorted.
read_files_from_directory(dir) ==
    LET names == SetToSortedSeq(DOMAIN dir)
    IN [ok |-> \A n \in DOMAIN dir : validate_filename(n),
        files |-> [i \in 1..Len(names) |-> [filename |-> names[i], content |-> dir[names[i]]]]]

\* The encrypted file list and the root over it, as upload_from_directory computes.
encrypted_file_list(file_list, batch_id) ==
    [i \in 1..Len(file_list) |->
        [filename |-> file_list[i].filename,
         content |-> encrypt_file(file_list[i].filename, batch_id, file_list[i].content)]]

client_root_hash(encrypted) ==
    hex_encode(from_data([i \in 1..Len(encrypted) |-> encrypted[i].content]).root)

\* convert_proof_to_nodes: every hash must be hex of 32 bytes.
convert_proof_to_nodes(proof_json) ==
    [ok |-> \A i \in 1..Len(proof_json) : hex_decode(proof_json[i].hash).ok,
     path |-> [i \in 1..Len(proof_json) |->
                 [hash |-> hex_decode(proof_json[i].hash).val, is_left |-> proof_json[i].is_left]]]

verify_merkle_proof_no_root(result, root_hash) ==
    /\ hex_decode(result.file_hash).ok
    /\ convert_proof_to_nodes(result.merkle_proof).ok

\* FileDownloader::verify_merkle_proof.
verify_merkle_proof(result, root_hash) ==
    /\ hex_decode(result.file_hash).ok
    /\ convert_proof_to_nodes(result.merkle_proof).ok
    /\ hex_decode(root_hash).ok
    /\ compute_root(hex_decode(result.file_hash).val,
                    convert_proof_to_nodes(result.merkle_proof).path) = hex_decode(root_hash).val

base64_decode(s) == IF s[1] = "b64" THEN [ok |-> TRUE, val |-> s[2]] ELSE [ok |-> FALSE, val |-> s]

download_and_verify_no_hash(result, filename, root_hash) ==
    /\ result.status = 200
    /\ result.filename = filename
    /\ verify_merkle_proof(result, root_hash)
    /\ base64_decode(result.file_content).ok

\* FileDownloader::download_and_verify: TRUE when the file is saved.
download_and_verify(result, filename, root_hash) ==
    /\ result.status = 200
    /\ result.filename = filename
    /\ verify_merkle_proof(result, root_hash)
    /\ base64_decode(result.file_content).ok
    /\ hex_encode(hash_leaf(base64_decode(result.file_content).val)) = result.file_hash

ClientDir == batch_dir("cA", ClientBatch)

ClientContents == {cl.files[i].content : i \in 1..Len(cl.files)}
ClientFilenames == {cl.files[i].filename : i \in 1..Len(cl.files)}

\* upload_from_directory up to the first request.
ClientReadDirectory(dir) ==
    LET r == read_files_from_directory(dir)
        enc == encrypted_file_list(r.files, ClientBatch)
    IN /\ cl.pc = "start"
       /\ r.ok
       /\ cl' = [cl EXCEPT !.pc = "send", !.files = enc, !.i = 1,
                           !.root_hash = client_root_hash(enc)]
       /\ UNCHANGED <<fs, lock, up, dn, nUp, nDn, nEnv, gh, now, sent, rq, pf>>

\* upload_files_to_server: the next request is sent.
ClientSendUpload ==
    /\ cl.pc = "send"
    /\ UploadBegin("u1", "cA", ClientBatch, cl.files[cl.i].filename, cl.files[cl.i].content)
    /\ cl' = [cl EXCEPT !.pc = "wait"]
    /\ UNCHANGED <<nDn, nEnv, now, sent, rq, pf>>

\* The response arrives: the loop goes on after 200 and bails out otherwise; after
\* the last file save_upload_metadata writes the root hash.
ClientUploadResponse ==
    /\ cl.pc = "wait"
    /\ ~Active("u1")
    /\ cl' = [cl EXCEPT !.pc = IF up["u1"].result # "ok" THEN "failed"
                               ELSE IF cl.i = Len(cl.files) THEN "saved" ELSE "send",
                        !.i = @ + 1]
    /\ UNCHANGED <<fs, lock, up, dn, nUp, nDn, nEnv, gh, now, sent, rq, pf>>

\* download_and_verify: the request for one of the uploaded files.
ClientRequestDownload(f) ==
    /\ cl.pc = "saved"
    /\ f \in ClientFilenames
    /\ DownloadBegin("d1", "cA", ClientBatch, f)
    /\ cl' = [cl EXCEPT !.pc = "dl", !.want = f]
    /\ UNCHANGED <<sent, rq>>

\* download_and_verify: the checks on the response and save_downloaded_file.
ClientVerify ==
    LET ok == download_and_verify(dn["d1"].resp, cl.want, cl.root_hash)
    IN /\ cl.pc = "dl"
       /\ dn["d1"].pc = "idle"
       /\ cl' = [cl EXCEPT !.pc = "verified",
                           !.verdict = IF ok THEN "ok" ELSE "rejected",
                           !.saved = IF ok THEN base64_decode(dn["d1"].resp.file_content).val
                                     ELSE Absent]
       /\ UNCHANGED <<fs, lock, up, dn, nUp, nDn, nEnv, gh, now, sent, rq, pf>>

\* ---------------------------------------------------------------- environment

ForgedContents == {<<"raw", "evil">>}

\* The storage medium replaces the stored bytes of an uploaded file.
Tamper(f, t) ==
    /\ cl.pc = "saved"
    /\ nEnv < MaxEnv
    /\ f \in ClientFilenames
    /\ fs' = [fs EXCEPT ![ClientDir][f] = t]
    /\ cl' = [cl EXCEPT !.env = @ \cup {"tamper"}, !.tampered = <<f, t>>]
    /\ nEnv' = nEnv + 1
    /\ UNCHANGED <<lock, up, dn, nUp, nDn, gh, now, sent, rq, pf>>

\* The hashes an adversary can put into an inclusion path: the nodes of the tree
\* over the uploaded contents and the leaf hashes of forged contents.
HashPool ==
    LET t == from_data([i \in 1..Len(cl.files) |-> cl.files[i].content])
    IN UNION {Range(t.levels[k]) : k \in 1..Len(t.levels)}
         \cup {hash_leaf(x) : x \in ForgedContents}

PathNodes == [hash : {hex_encode(h) : h \in HashPool}, is_left : BOOLEAN]
ForgedPaths == UNION {[1..n -> PathNodes] : n \in 0..MaxPathLen}

InFlight == cl.pc = "dl" /\ dn["d1"].pc = "idle" /\ dn["d1"].resp.status = 200

\* The response carries another inclusion path and claimed leaf hash (each part of
\* the response is rewritten at most once: rewriting twice is one rewriting).
ForgeProof(h, path) ==
    /\ InFlight
    /\ "proof" \notin cl.env
    /\ nEnv < MaxEnv
    /\ dn' = [dn EXCEPT !["d1"].resp.file_hash = hex_encode(h),
                        !["d1"].resp.merkle_proof = path]
    /\ cl' = [cl EXCEPT !.env = @ \cup {"proof"}]
    /\ nEnv' = nEnv + 1
    /\ UNCHANGED <<fs, lock, up, nUp, nDn, gh, now, sent, rq, pf>>

\* The response carries other content.
ForgeContent(t) ==
    /\ InFlight
    /\ "content" \notin cl.env
    /\ nEnv < MaxEnv
    /\ dn' = [dn EXCEPT !["d1"].resp.file_content = <<"b64", t>>]
    /\ cl' = [cl EXCEPT !.env = @ \cup {"content"}]
    /\ nEnv' = nEnv + 1
    /\ UNCHANGED <<fs, lock, up, nUp, nDn, gh, now, sent, rq, pf>>

\* The response to the download of cl.want carries the content, leaf hash and
\* inclusion path of another file g of the batch.
Substitute(g) ==
    LET r == AtomicDownload(fs[ClientDir], g)
    IN /\ InFlight
       /\ cl.env \subseteq {"tamper"}
       /\ nEnv < MaxEnv
       /\ g \in ClientFilenames \ {cl.want}
       /\ r.status = 200
       /\ dn' = [dn EXCEPT !["d1"].resp = [r EXCEPT !.filename = cl.want]]
       /\ cl' = [cl EXCEPT !.env = @ \cup {"subst"}, !.sub = g]
       /\ nEnv' = nEnv + 1
       /\ UNCHANGED <<fs, lock, up, nUp, nDn, gh, now, sent, rq, pf>>

NextClient ==
    \/ \E dir \in ClientDirectories : ClientReadDirectory(dir)
    \/ ClientSendUpload
    \/ ClientUploadResponse
    \/ \E f \in ClientNames : ClientRequestDownload(f)
    \/ ClientVerify
    \/ \E u \in {"u1"} : UploadStep(u)
    \/ \E d \in Downloaders : DownloadStep(d)
    \/ \E f \in ClientNames, t \in ForgedContents \cup ClientContents : Tamper(f, t)
    \/ \E h \in HashPool, path \in ForgedPaths : ForgeProof(h, path)
    \/ \E t \in ForgedContents \cup ClientContents : ForgeContent(t)
    \/ \E g \in ClientNames : Substitute(g)

SpecClient == Init /\ [][NextClient]_vars

\* Uploads into three batch ids of one client, with I/O failures.
StoreNames == {"a.txt", "b.txt"}
StoreContents == {<<"raw", "v1">>, <<"raw", "v2">>}

NextStore ==
    \/ \E u \in Uploaders, b \in BatchIds, f \in StoreNames, v \in StoreContents :
          UploadRequest(u, "cA", b, f, v)
    \/ \E u \in Uploaders : UploadStep(u)
    \/ \E u \in Uploaders : IoError(u)

SpecStore == Init /\ [][NextStore]_vars

\* ---------------------------------------------------------------- properties

Finished(d) == dn[d].pc = "idle" /\ dn[d].resp.status # 0
ResponsePath(resp) == convert_proof_to_nodes(resp.merkle_proof).path
Committed(dir) == gh.last[dir] = "ok" /\ lock[dir] = NoOne
FilenameIndex(ds) ==
    IF ds[MetadataName] = Absent THEN [ok |-> FALSE, filenames |-> <<>>]
    ELSE Metadata_load_filenames(ds[MetadataName])
LeafIndex(ds) ==
    IF ds[LeafHashesName] = Absent THEN [ok |-> FALSE, map |-> EmptyMap]
    ELSE LeafHashes_load(ds[LeafHashesName])

\* C1: a download of (c, b, f) that starts after an upload of (c, b, f, v) returned
\* successfully and runs while no upload to the batch is running returns status
\* 200, exactly the content v, and a proof whose root recomputed from hash_leaf(v)
\* equals the root of the batch's cached tree.
C1_DownloadReturnsUploaded ==
    \A d \in Downloaders :
        (Finished(d) /\ dn[d].clean /\ dn[d].expect # Absent) =>
            /\ dn[d].resp.status = 200
            /\ dn[d].resp.file_content = <<"b64", dn[d].expect>>
            /\ compute_root(hash_leaf(dn[d].expect), ResponsePath(dn[d].resp)) = dn[d].root

\* C2: after the client uploaded every file of a directory into a fresh batch and
\* saved its locally computed root, the response to a download of any of those
\* files, when nothing interferes, is accepted by the client's verification and
\* the file is saved with the uploaded content.
C2_ClientAcceptsOwnFiles ==
    (cl.pc = "verified" /\ cl.env = {}) =>
        /\ cl.verdict = "ok"
        /\ cl.saved \in ClientContents

\* C3: when the stored bytes of an uploaded file were replaced out of band by
\* bytes never uploaded into the batch, download_and_verify of that file against
\* the saved root fails and saves nothing, whatever inclusion path and leaf hash
\* come with the response.
C3_TamperedBytesRejected ==
    (/\ cl.pc = "verified"
     /\ cl.tampered # Absent
     /\ cl.tampered[1] = cl.want
     /\ cl.tampered[2] \notin gh.uploaded[ClientDir]
     /\ cl.env \subseteq {"tamper", "proof"}) =>
        /\ cl.verdict = "rejected"
        /\ cl.saved = Absent

\* The server answered 200 with the replaced bytes and the client rejected it.
C3_Witness ==
    /\ cl.pc = "verified"
    /\ cl.tampered # Absent
    /\ cl.tampered[1] = cl.want
    /\ cl.tampered[2] \notin gh.uploaded[ClientDir]
    /\ cl.env = {"tamper"}
    /\ dn["d1"].resp.status = 200
    /\ dn["d1"].resp.file_content = <<"b64", cl.tampered[2]>>
    /\ cl.verdict = "rejected"

\* C4 as stated: a response to a download of f that carries the content, leaf hash
\* and inclusion path of a different file g of the same batch, whose content
\* differs, fails the client's verification.
C4_SubstitutionRejected ==
    (/\ cl.pc = "verified"
     /\ cl.env = {"subst"}
     /\ cl.sub # cl.want
     /\ dn["d1"].resp.file_content # prepare_file_data(fs[ClientDir][cl.want]).file_content) =>
        cl.verdict = "rejected"

\* C4 amended: a response whose content is not the content of any file the client
\* uploaded into the batch is rejected and nothing is saved, whatever leaf hash
\* and inclusion path it carries; a response to a download of f that carries the
\* content, leaf hash and path of another file g of the batch is accepted exactly
\* when g's own response would be.
C4_ForeignContentRejected ==
    /\ (/\ cl.pc = "verified"
        /\ "content" \in cl.env
        /\ base64_decode(dn["d1"].resp.file_content).val \notin ClientContents) =>
            (cl.verdict = "rejected" /\ cl.saved = Absent)
    /\ (cl.pc = "verified" /\ cl.env = {"subst"}) =>
            (cl.verdict = "ok" <=>
                download_and_verify([dn["d1"].resp EXCEPT !.filename = cl.sub],
                                    cl.sub, cl.root_hash))

\* A forged content arrived with the genuine leaf hash and path and was rejected.
C4_Witness ==
    /\ cl.pc = "verified"
    /\ cl.env = {"content"}
    /\ base64_decode(dn["d1"].resp.file_content).val \notin ClientContents
    /\ verify_merkle_proof(dn["d1"].resp, cl.root_hash)
    /\ cl.verdict = "rejected"

\* C5: when store_file_and_update_tree returns an error, the files, filename
\* index, leaf-hash index and cached tree of the batch are those of the state
\* before the call.
C5_FailureRestoresState ==
    \A u \in Uploaders :
        (~Active(u) /\ up[u].result = "err") => DataOf(up[u].post) = DataOf(up[u].pre)

\* C6: a download that overlaps exactly one upload into its batch and answers 200
\* returns the response of a download run entirely on the state before that
\* upload or entirely on the state after it.
C6_DownloadSeesOneState ==
    \A d \in Downloaders :
        (Finished(d) /\ dn[d].resp.status = 200 /\ Cardinality(dn[d].ov) = 1) =>
            LET f == dn[d].ovreq[1]
                v == dn[d].ovreq[2]
                after == AtomicStore(dn[d].pre, f, v, hash_leaf(v)).ds
            IN dn[d].resp \in {AtomicDownload(dn[d].pre, dn[d].filename),
                               AtomicDownload(after, dn[d].filename)}

\* C7: when concurrent uploads of distinct filenames into one empty batch have all
\* returned successfully, the filename index is the sorted list of the uploaded
\* filenames, the cached tree has as many leaves as the index, its root is the
\* root rebuilt from the uploaded filename -> content pairs, and the proof served
\* for every file recomputes that root.
C7_ConcurrentUploadsSerial ==
    LET used == {u \in Uploaders : up[u].id # 0}
        names == SetToSortedSeq({up[u].filename : u \in used})
        contentOf(f) == up[CHOOSE u \in used : up[u].filename = f].content
        dir == UpDir(CHOOSE u \in used : TRUE)
        ds == fs[dir]
        idx == FilenameIndex(ds)
        rebuilt == from_data([i \in 1..Len(names) |-> contentOf(names[i])])
    IN (/\ Cardinality(used) >= 2
        /\ nUp = Cardinality(used)
        /\ \A u \in used : ~Active(u) /\ up[u].result = "ok" /\ up[u].overlapped
        /\ \A u \in used : UpDir(u) = dir
        /\ Len(names) = Cardinality(used)) =>
            /\ idx.ok
            /\ idx.filenames = names
            /\ ds[MerkleTreeName] # Absent
            /\ Tree_load(ds[MerkleTreeName]).ok
            /\ num_leaves(Tree_load(ds[MerkleTreeName]).tree) = Len(idx.filenames)
            /\ CachedRoot(ds) = rebuilt.root
            /\ \A f \in Range(names) :
                  LET r == AtomicDownload(ds, f)
                  IN /\ r.status = 200
                     /\ r.file_content = <<"b64", contentOf(f)>>
                     /\ verify_merkle_proof(r, hex_encode(rebuilt.root))

\* C8: a step of an upload leaves the files, filename index, leaf-hash index and
\* cached tree of every batch that no running upload addresses unchanged.
C8_OtherBatchesUnchanged ==
    [][\A c \in ClientIds, b \in BatchIds :
          (\A u \in Uploaders : Active(u) => ~(up[u].client_id = c /\ up[u].batch_id = b)) =>
              DataOf(fs'[batch_dir(c, b)]) = DataOf(fs[batch_dir(c, b)])]_vars

\* C9: after every successful upload the filename index of the batch is exactly
\* the set of names of the files stored in it, without duplicate and in ascending
\* byte order.
C9_IndexIsFileSet ==
    \A dir \in Dirs :
        Committed(dir) =>
            /\ FilenameIndex(fs[dir]).ok
            /\ Range(FilenameIndex(fs[dir]).filenames) = gh.written[dir]
            /\ IsSortedNoDup(FilenameIndex(fs[dir]).filenames)

\* C10: after every successful upload, every filename of the filename index has a
\* leaf-hash entry equal to hash_leaf of the content stored under that name.
C10_LeafHashMatchesContent ==
    \A dir \in Dirs :
        Committed(dir) =>
            /\ FilenameIndex(fs[dir]).ok
            /\ LeafIndex(fs[dir]).ok
            /\ \A f \in Range(FilenameIndex(fs[dir]).filenames) :
                  /\ f \in DOMAIN LeafIndex(fs[dir]).map
                  /\ LeafIndex(fs[dir]).map[f] = hex_encode(hash_leaf(fs[dir][f]))

\* C11: after every successful upload the cached tree of the batch loads, its
\* leaves are the leaf-hash index values taken in filename-index order, the keys
\* of the leaf-hash index are exactly the filenames of the filename index, and
\* the tree has as many leaves as the filename index has entries.
C11_TreeLeavesMatchIndex ==
    \A dir \in Dirs :
        Committed(dir) =>
            LET idx == FilenameIndex(fs[dir])
                lh == LeafIndex(fs[dir])
                t == Tree_load(fs[dir][MerkleTreeName])
            IN /\ idx.ok /\ lh.ok /\ t.ok
               /\ DOMAIN lh.map = Range(idx.filenames)
               /\ t.tree.leaves =
                     [i \in 1..Len(idx.filenames) |-> hex_decode(lh.map[idx.filenames[i]]).val]
               /\ num_leaves(t.tree) = Len(idx.filenames)

\* ---------------------------------------------------------------- sequential uploads

SeqNames == {"a.txt", "b.txt", "c.txt"}
SeqContents == {<<"raw", "v1">>, <<"raw", "v2">>}

SeqUploadRequest(f, v) ==
    /\ nUp < MaxSeqUploads
    /\ UploadBegin("u1", "cA", "b1", f, v)
    /\ UNCHANGED <<cl, nDn, nEnv, now, sent, rq, pf>>

\* One upload at a time into one batch, each of which may fail with an I/O error.
NextSeq ==
    \/ \E f \in SeqNames, v \in SeqContents : SeqUploadRequest(f, v)
    \/ \E u \in {"u1"} : UploadStep(u)
    \/ \E u \in {"u1"} : IoError(u)

SpecSeq == Init /\ [][NextSeq]_vars

\* The pairing of one level as the design describes it: adjacent nodes in pairs, the
\* last node of an odd-length level with itself.
RECURSIVE PairUp(_)
PairUp(level) ==
    IF level = <<>> THEN <<>>
    ELSE IF Len(level) = 1 THEN <<hash_pair(level[1], level[1])>>
    ELSE <<hash_pair(level[1], level[2])>> \o PairUp(SubSeq(level, 3, Len(level)))

\* The root over a non-empty list of leaves: the single node of the final level.
RECURSIVE MerkleRoot(_)
MerkleRoot(level) ==
    IF Len(level) = 1 THEN level[1] ELSE MerkleRoot(PairUp(level))

\* C12: after every successful upload the cached tree of the batch has at least
\* one leaf, its root is the Merkle root of its leaves (adjacent nodes paired
\* level by level, the last node of an odd level paired with itself), and the
\* whole tree is the one built from the full leaf-hash index in filename order.
C12_RootIsMerkleRoot ==
    \A dir \in Dirs :
        Committed(dir) =>
            LET t == Tree_load(fs[dir][MerkleTreeName])
                lh == LeafIndex(fs[dir])
            IN /\ t.ok /\ lh.ok
               /\ num_leaves(t.tree) >= 1
               /\ t.tree.root = MerkleRoot(t.tree.leaves)
               /\ t.tree = from_leaf_hashes(SortedLeafHashes(lh.map))

\* A third successful upload left a tree of three leaves, whose odd last leaf is
\* paired with itself.
C12_Witness ==
    /\ Committed(<<"cA", "b1">>)
    /\ nUp = 3
    /\ num_leaves(Tree_load(fs[<<"cA", "b1">>][MerkleTreeName]).tree) = 3
    /\ CachedRoot(fs[<<"cA", "b1">>]) = MerkleRoot(Tree_load(fs[<<"cA", "b1">>][MerkleTreeName]).tree.leaves)

\* ---------------------------------------------------------------- keys and signatures

PublicKeys == {"pkA", "pkB"}

\* crypto::compute_client_id: hex(SHA-256(public key bytes)).  The hash is
\* collision-free: distinct keys have distinct client ids.
compute_client_id(public_key) ==
    CASE public_key = "pkA" -> "cA"
      [] public_key = "pkB" -> "cB"

\* crypto::public_key_from_bytes: Ok exactly for the bytes of an Ed25519 key.
public_key_from_bytes(bytes) == bytes \in PublicKeys

\* An Ed25519 signature is the term of the key pair that made it and the message
\* it signed; only the holder of the secret key of public_key can make it.
Sign(public_key, message) == <<"sig", public_key, message>>

\* crypto::verify_signature.
verify_signature(public_key, message, signature) == signature = Sign(public_key, message)

\* The 64 hexadecimal characters of a 32-byte value.  The values of the model are
\* terms, and each has its own character string.
HexText(text) ==
    LET digit == CASE text = hex_encode("pkA") -> 97
                   [] text = hex_encode("pkB") -> 98
                   [] text = hex_encode(hash_leaf(<<"raw", "v1">>)) -> 49
                   [] text = hex_encode(hash_leaf(<<"raw", "v2">>)) -> 50
                   [] text = hex_encode(hash_leaf(<<"raw", "other">>)) -> 51
                   [] text = hex_encode(hash_leaf(hex_encode("pkB"))) -> 52
    IN [i \in 1..64 |-> digit]

\* The bytes of the file contents that requests carry.
ContentBytes(content) ==
    CASE content = <<"raw", "v1">> -> <<118, 49>>
      [] content = <<"raw", "v2">> -> <<118, 50>>
      [] content[1] = "hex" -> HexText(content)

\* u64::to_be_bytes; the timestamps of the model are below 2^32, so the four high
\* bytes are zero.
to_be_bytes(timestamp) ==
    <<0, 0, 0, 0>> \o [i \in 1..4 |-> (timestamp \div (256 ^ (4 - i))) % 256]

\* handlers::upload::build_message (and the client's build_upload_message): the
\* bytes of the fields appended one after the other.
upload_message(filename, batch_id, file_hash, file_content, timestamp) ==
    Bytes(filename) \o Bytes(batch_id) \o HexText(file_hash) \o ContentBytes(file_content)
        \o to_be_bytes(timestamp)

\* handlers::download::build_message.
download_message(filename, batch_id, timestamp) ==
    Bytes(filename) \o Bytes(batch_id) \o to_be_bytes(timestamp)

\* ---------------------------------------------------------------- timestamps

DEFAULT_MAX_AGE_SECONDS == 300
DEFAULT_MAX_CLOCK_SKEW_SECONDS == 60

\* The values of the unsigned timestamp word: 0 .. WordModulus - 1 stands for the
\* range of u64.
WordModulus == 2 ^ 30

\* u64::saturating_sub.
saturating_sub(a, b) == IF a >= b THEN a - b ELSE 0

\* A validate_timestamp that accepts every timestamp.
validate_timestamp_accept(now_ms, request_timestamp_ms, max_age_seconds, max_clock_skew_seconds) ==
    [ok |-> TRUE, overflow |-> FALSE]

\* A validate_timestamp without the lower end of the window.
validate_timestamp_no_age(now_ms, request_timestamp_ms, max_age_seconds, max_clock_skew_seconds) ==
    [ok |-> ~(request_timestamp_ms \div 1000 > (now_ms \div 1000) + max_clock_skew_seconds),
     overflow |-> FALSE]

\* AuthVerifier::validate_timestamp with the clock reading now_ms.  overflow tells
\* whether now_seconds + max_clock_skew_seconds leaves the word (a panic in a
\* debug build, a wrapped sum in a release build).
validate_timestamp(now_ms, request_timestamp_ms, max_age_seconds, max_clock_skew_seconds) ==
    LET request_timestamp_seconds == request_timestamp_ms \div 1000
        now_seconds == now_ms \div 1000
        age_seconds == saturating_sub(now_seconds, request_timestamp_seconds)
        limit == now_seconds + max_clock_skew_seconds
    IN [ok |-> /\ ~(age_seconds > max_age_seconds)
               /\ ~(request_timestamp_seconds > limit % WordModulus),
        overflow |-> limit >= WordModulus]

\* A validate_timestamp without the upper end of the window.
validate_timestamp_no_skew(now_ms, request_timestamp_ms) ==
    [ok |-> ~(saturating_sub(now_ms \div 1000, request_timestamp_ms \div 1000)
                > DEFAULT_MAX_AGE_SECONDS),
     overflow |-> FALSE]

\* AuthVerifier::validate_timestamp_default.
validate_timestamp_default(now_ms, request_timestamp_ms) ==
    validate_timestamp(now_ms, request_timestamp_ms,
                       DEFAULT_MAX_AGE_SECONDS, DEFAULT_MAX_CLOCK_SKEW_SECONDS)

\* ---------------------------------------------------------------- client registry

\* FilesystemStorage::load_public_key on the stored state: Ok(None) when
\* public_key.hex does not exist, Err when its text is not hex.
load_public_key(store, client_id) ==
    LET text == store[client_dir(client_id)][PublicKeyName]
    IN IF text = Absent THEN [ok |-> TRUE, some |-> FALSE, key |-> ""]
       ELSE IF hex_decode(text).ok THEN [ok |-> TRUE, some |-> TRUE, key |-> hex_decode(text).val]
       ELSE [ok |-> FALSE, some |-> FALSE, key |-> ""]

\* FilesystemStorage::store_public_key.
store_public_key(store, client_id, public_key) ==
    [store EXCEPT ![client_dir(client_id)][PublicKeyName] = hex_encode(public_key)]

\* AuthVerifier::verify_request_signature: the signature is verified under the key
\* of the request, and the key is stored when the client has none.
verify_request_signature(store, message, signature, public_key_hex) ==
    LET bytes == hex_decode(public_key_hex)
        client_id == compute_client_id(bytes.val)
        stored == load_public_key(store, client_id)
        failed == [ok |-> FALSE, client_id |-> "", is_new |-> FALSE, store |-> store]
    IN IF ~bytes.ok \/ ~public_key_from_bytes(bytes.val) THEN failed
       ELSE IF ~verify_signature(bytes.val, message, signature) THEN failed
       ELSE IF ~stored.ok THEN failed
       ELSE [ok |-> TRUE, client_id |-> client_id, is_new |-> ~stored.some,
             store |-> IF stored.some THEN store
                       ELSE store_public_key(store, client_id, bytes.val)]

\* AuthVerifier::verify_request_signature_with_client_id: the signature is verified
\* under the key stored for client_id; nothing is stored.
verify_request_signature_with_client_id(store, client_id, message, signature) ==
    LET stored == load_public_key(store, client_id)
    IN /\ stored.ok
       /\ stored.some
       /\ public_key_from_bytes(stored.key)
       /\ verify_signature(stored.key, message, signature)
\* ---------------------------------------------------------------- authenticated handlers

AuthNames == {"a.txt", PublicKeyName, ".."}
\* The uploaded bytes: the text that is the hex form of a public key.
AuthContents == {hex_encode("pkB")}
\* The key a request carries and the key pair that signs it.
Signers == {<<"pkA", "pkA">>, <<"pkB", "pkB">>, <<"pkA", "pkB">>}
ClockValues == {ClockStart, ClockStart + 300500, ClockStart + 600000}
\* Timestamps a sender puts into a new request at time t: the time itself, one 400
\* seconds old and one 120 seconds ahead.
Timestamps(t) == {t, t - 400000, t + 120000}

\* The multipart form of an upload: public_key carries pk, the signature is made by
\* the key pair of signer over the canonical message, and file_hash is the hash of
\* the content or of other bytes.
UploadReq(pk, signer, f, b, v, hash_ok, ts) ==
    LET file_hash == IF hash_ok THEN hex_encode(hash_leaf(v))
                     ELSE hex_encode(hash_leaf(<<"raw", "other">>))
    IN [kind |-> "upload", client_id |-> "", public_key |-> hex_encode(pk), filename |-> f,
        batch_id |-> b, content |-> v, file_hash |-> file_hash, timestamp |-> ts,
        signature |-> Sign(signer, upload_message(f, b, file_hash, v, ts))]

\* The query of a download.
DownloadReq(c, signer, f, b, ts) ==
    [kind |-> "download", client_id |-> c, public_key |-> "", filename |-> f,
     batch_id |-> b, content |-> Absent, file_hash |-> Absent, timestamp |-> ts,
     signature |-> Sign(signer, download_message(f, b, ts))]


\* A request reaches its handler (Received).  pre, at and dup are history fields:
\* the stored state and the clock at arrival, and whether the same request was
\* authenticated before.
Receive(req) ==
    /\ rq.pc = "idle"
    /\ rq.n < MaxRequests
    /\ rq' = [IdleRq EXCEPT !.pc = "received", !.req = req, !.dup = (req \in sent),
                            !.at = now, !.pre = fs, !.n = rq.n + 1,
                            !.replays = rq.replays]
    /\ UNCHANGED <<fs, lock, up, dn, cl, nUp, nDn, nEnv, gh, now, sent, pf>>

ReceiveUpload(pk, signer, f, b, v, hash_ok, ts) ==
    Receive(UploadReq(pk, signer, f, b, v, hash_ok, ts))

ReceiveDownload(c, signer, f, b, ts) ==
    Receive(DownloadReq(c, signer, f, b, ts))

\* A request seen before is sent again, unchanged.
Replay(req) ==
    /\ req \in sent
    /\ rq.pc = "idle"
    /\ rq.replays < MaxReplays
    /\ rq' = [IdleRq EXCEPT !.pc = "received", !.req = req, !.dup = TRUE, !.at = now,
                            !.pre = fs, !.n = rq.n, !.replays = rq.replays + 1]
    /\ UNCHANGED <<fs, lock, up, dn, cl, nUp, nDn, nEnv, gh, now, sent, pf>>

\* The handler returns an error response.
Reject(status, why) ==
    rq' = [rq EXCEPT !.pc = "responded", !.status = status, !.fail = why]

\* upload.rs 20-22 and 49-55, download.rs 24-30: validate_fields (400, uploads
\* only), validate_filename (400), then validate_timestamp_default against the
\* clock (401).
Validate ==
    /\ rq.pc = "received"
    /\ IF rq.req.kind = "upload" /\ ~validate_fields(rq.req.filename, rq.req.batch_id)
       THEN Reject(400, "fields")
       ELSE IF ~validate_filename(rq.req.filename) THEN Reject(400, "filename")
       ELSE IF ~validate_timestamp_default(now, rq.req.timestamp).ok
       THEN Reject(401, "timestamp")
       ELSE rq' = [rq EXCEPT !.pc = "validated"]
    /\ UNCHANGED <<fs, lock, up, dn, cl, nUp, nDn, nEnv, gh, now, sent, pf>>

\* upload.rs 62-84: the hash of the content against file_hash (400), then
\* verify_request_signature (401), which registers a client that has no key.
AuthenticateUpload ==
    LET req == rq.req
        computed_hash_hex == hex_encode(hash_leaf(req.content))
        message == upload_message(req.filename, req.batch_id, req.file_hash, req.content,
                                  req.timestamp)
        r == verify_request_signature(fs, message, req.signature, req.public_key)
    IN /\ rq.pc = "validated"
       /\ req.kind = "upload"
       /\ IF computed_hash_hex # req.file_hash
          THEN Reject(400, "hash") /\ UNCHANGED <<fs, sent>>
          ELSE IF ~r.ok THEN Reject(401, "signature") /\ UNCHANGED <<fs, sent>>
          ELSE /\ fs' = r.store
               /\ sent' = sent \cup {req}
               /\ rq' = [rq EXCEPT !.pc = "authenticated", !.client_id = r.client_id,
                                   !.is_new = r.is_new]
       /\ UNCHANGED <<lock, up, dn, cl, nUp, nDn, nEnv, gh, now, pf>>

\* upload.rs 96-100: the storage call starts.
StoreUpload ==
    /\ rq.pc = "authenticated"
    /\ rq.req.kind = "upload"
    /\ UploadBegin("u1", rq.client_id, rq.req.batch_id, rq.req.filename, rq.req.content)
    /\ rq' = [rq EXCEPT !.pc = "storing"]
    /\ UNCHANGED <<cl, nDn, nEnv, now, sent, pf>>

\* upload.rs 100-109: 500 when the storage call failed, 200 otherwise.
RespondUpload ==
    /\ rq.pc = "storing"
    /\ ~Active("u1")
    /\ rq' = [rq EXCEPT !.pc = "responded",
                        !.status = IF up["u1"].result = "ok" THEN 200 ELSE 500,
                        !.fail = IF up["u1"].result = "ok" THEN "" ELSE "storage"]
    /\ UNCHANGED <<fs, lock, up, dn, cl, nUp, nDn, nEnv, gh, now, sent, pf>>

\* download.rs 32-44: verify_request_signature_with_client_id under the key stored
\* for the client_id of the query (401).
AuthenticateDownload ==
    LET req == rq.req
        message == download_message(req.filename, req.batch_id, req.timestamp)
    IN /\ rq.pc = "validated"
       /\ req.kind = "download"
       /\ IF ~verify_request_signature_with_client_id(fs, req.client_id, message,
                                                      req.signature)
          THEN Reject(401, "signature") /\ UNCHANGED sent
          ELSE /\ sent' = sent \cup {req}
               /\ rq' = [rq EXCEPT !.pc = "authenticated", !.client_id = req.client_id]
       /\ UNCHANGED <<fs, lock, up, dn, cl, nUp, nDn, nEnv, gh, now, pf>>

\* download.rs 53-90: the batch is read.
ProveDownload ==
    /\ rq.pc = "authenticated"
    /\ rq.req.kind = "download"
    /\ DownloadBegin("d1", rq.client_id, rq.req.batch_id, rq.req.filename)
    /\ rq' = [rq EXCEPT !.pc = "proving"]
    /\ UNCHANGED <<cl, sent>>

\* download.rs 57-104: the response built from the batch, or its error status.
RespondDownload ==
    /\ rq.pc = "proving"
    /\ dn["d1"].pc = "idle"
    /\ rq' = [rq EXCEPT !.pc = "responded", !.status = dn["d1"].resp.status]
    /\ UNCHANGED <<fs, lock, up, dn, cl, nUp, nDn, nEnv, gh, now, sent, pf>>

\* The response has gone out and the handler is gone.
Finish ==
    /\ rq.pc = "responded"
    /\ rq' = [IdleRq EXCEPT !.n = rq.n, !.replays = rq.replays]
    /\ UNCHANGED <<fs, lock, up, dn, cl, nUp, nDn, nEnv, gh, now, sent, pf>>

\* Time passes between requests.
Tick(t) ==
    /\ rq.pc = "idle"
    /\ t > now
    /\ now' = t
    /\ UNCHANGED <<fs, lock, up, dn, cl, nUp, nDn, nEnv, gh, sent, rq, pf>>

\* One authenticated request at a time: uploads and downloads signed by two key
\* pairs, I/O failures of the storage call, and the clock.
NextAuth ==
    \/ \E s \in Signers, f \in AuthNames, b \in AuthBatchIds, v \in AuthContents,
          hash_ok \in BOOLEAN, ts \in Timestamps(now) :
          ReceiveUpload(s[1], s[2], f, b, v, hash_ok, ts)
    \/ \E c \in ClientIds, signer \in PublicKeys, f \in AuthNames \ {".."},
          b \in AuthBatchIds, ts \in Timestamps(now) :
          ReceiveDownload(c, signer, f, b, ts)
    \/ Validate
    \/ AuthenticateUpload
    \/ StoreUpload
    \/ \E u \in {"u1"} : UploadStep(u)
    \/ \E u \in {"u1"} : IoError(u)
    \/ RespondUpload
    \/ AuthenticateDownload
    \/ ProveDownload
    \/ \E d \in {"d1"} : DownloadStep(d)
    \/ RespondDownload
    \/ Finish
    \/ \E t \in ClockValues : Tick(t)

SpecAuth == Init /\ [][NextAuth]_vars

\* Requests of two clients for one file of one batch, each of which may be sent
\* again later, and the clock.
NextReplay ==
    \/ \E s \in Signers, ts \in Timestamps(now) :
          ReceiveUpload(s[1], s[2], "a.txt", "b1", <<"raw", "v1">>, TRUE, ts)
    \/ \E c \in ClientIds, signer \in PublicKeys, ts \in Timestamps(now) :
          ReceiveDownload(c, signer, "a.txt", "b1", ts)
    \/ \E req \in sent : Replay(req)
    \/ Validate
    \/ AuthenticateUpload
    \/ StoreUpload
    \/ \E u \in {"u1"} : UploadStep(u)
    \/ RespondUpload
    \/ AuthenticateDownload
    \/ ProveDownload
    \/ \E d \in {"d1"} : DownloadStep(d)
    \/ RespondDownload
    \/ Finish
    \/ \E t \in ClockValues : Tick(t)

SpecReplay == Init /\ [][NextReplay]_vars

\* ---------------------------------------------------------------- authentication properties

Registered(c) == fs[client_dir(c)][PublicKeyName] # Absent

\* C13: every registered client has a stored public key whose hash is its
\* client_id, and its entry was made by an upload that carried that key and whose
\* signature verified under it; a request whose signature does not verify
\* registers no one.
C13_RegistryBoundToKey ==
    /\ \A c \in ClientIds :
          Registered(c) =>
              LET stored == load_public_key(fs, c)
              IN /\ stored.ok
                 /\ public_key_from_bytes(stored.key)
                 /\ compute_client_id(stored.key) = c
                 /\ \E r \in sent :
                       /\ r.kind = "upload"
                       /\ r.public_key = hex_encode(stored.key)
                       /\ verify_signature(stored.key,
                             upload_message(r.filename, r.batch_id, r.file_hash, r.content,
                                            r.timestamp),
                             r.signature)
    /\ (rq.pc = "responded" /\ rq.fail = "signature") =>
          \A c \in ClientIds : Registered(c) <=> rq.pre[client_dir(c)][PublicKeyName] # Absent

\* ---------------------------------------------------------------- library calls

LibData == {"x", "y", "z"}
\* The non-empty lists of data items of up to MaxLeaves items.
LibLists == UNION {[1..n -> LibData] : n \in 1..MaxLeaves}

\* Clock readings and request timestamps around the ends of the replay window, at
\* the epoch and at the end of the word.
LibNows == {0, 999, 299999, 300000, 300999, 1000000, 1000999, WordModulus - 1}
LibOffsets ==
    {-400000, -301000, -300999, -300001, -300000, -60000, 0, 30000, 60000, 60001, 60999,
     61000, 120000}
LibTimestamps(n) ==
    {t \in {n + d : d \in LibOffsets} : t >= 0 /\ t < WordModulus} \cup {0, WordModulus - 1}

\* A call changes nothing of the server; each behaviour makes one call.
LibIdle ==
    /\ pf = NoCall
    /\ UNCHANGED <<fs, lock, up, dn, cl, nUp, nDn, nEnv, gh, now, sent, rq>>

\* validate_timestamp_default(t) called when the clock reads n.
CallValidateTimestamp(n, t) ==
    /\ LibIdle
    /\ pf' = [op |-> "validate_timestamp", now_ms |-> n, timestamp |-> t,
              res |-> validate_timestamp_default(n, t)]

\* MerkleTree::from_data(data) and MerkleTree::from_leaf_hashes of the leaf hashes
\* crypto::hash_leaf gives for the same items.
CallConstructors(data) ==
    /\ LibIdle
    /\ pf' = [op |-> "constructors", data |-> data,
              a |-> from_data(data),
              b |-> from_leaf_hashes([i \in 1..Len(data) |-> hash_leaf(data[i])])]

\* tree.generate_proof(k), then proof.compute_root().
CallGenerateProof(data, k) ==
    LET tree == from_data(data)
        proof == generate_proof(tree, k)
    IN /\ LibIdle
       /\ pf' = [op |-> "proof", tree |-> tree, k |-> k, proof |-> proof,
                 root |-> compute_root(proof.leaf_hash, proof.path)]

\* Every node hash of a tree and every leaf hash of a data item.
LibHashes(tree) ==
    UNION {Range(tree.levels[l]) : l \in 1..Len(tree.levels)} \cup {hash_data(d) : d \in LibData}

\* The single changes of a proof: another hash in one path entry, one is_left
\* flipped, or the leaf hash of other data.
Changes(tree, data, k, proof) ==
    {[kind |-> "hash", i |-> i, to |-> h] :
        i \in 1..Len(proof.path), h \in LibHashes(tree)}
    \cup {[kind |-> "flip", i |-> i, to |-> Absent] : i \in 1..Len(proof.path)}
    \cup {[kind |-> "leaf", i |-> 0, to |-> hash_data(d)] : d \in LibData}

Changed(proof, c) ==
    CASE c.kind = "hash" -> [proof EXCEPT !.path[c.i].hash = c.to]
      [] c.kind = "flip" -> [proof EXCEPT !.path[c.i].is_left = ~@]
      [] c.kind = "leaf" -> [proof EXCEPT !.leaf_hash = c.to]

\* compute_root on a proof of k that was changed in one place; at is the hash the
\* recomputation has reached when it comes to the changed entry.
CallChangedProof(data, k, c) ==
    LET tree == from_data(data)
        proof == generate_proof(tree, k)
        bad == Changed(proof, c)
    IN /\ LibIdle
       /\ c \in Changes(tree, data, k, proof)
       /\ bad # proof
       /\ pf' = [op |-> "changed", tree |-> tree, k |-> k, proof |-> proof, change |-> c,
                 bad |-> bad,
                 at |-> IF c.i = 0 THEN Absent
                        ELSE compute_root(proof.leaf_hash, SubSeq(proof.path, 1, c.i - 1)),
                 root |-> compute_root(bad.leaf_hash, bad.path)]

\* MerkleTree::from_data and MerkleTree::from_leaf_hashes called on an empty list.
CallConstructorsEmpty ==
    /\ LibIdle
    /\ pf' = [op |-> "empty", a |-> from_data(<<>>), b |-> from_leaf_hashes(<<>>)]

\* tree.generate_proof(k) for an index k that is not below the number of leaves.
CallGenerateProofBeyond(data, k) ==
    LET tree == from_data(data)
    IN /\ LibIdle
       /\ k >= num_leaves(tree)
       /\ pf' = [op |-> "beyond", tree |-> tree, k |-> k, proof |-> generate_proof(tree, k)]

\* The single changes of the proof of leaf k of the tree over data; none once the
\* behaviour has made its call.
LibChanges(data, k) ==
    IF pf = NoCall
    THEN Changes(from_data(data), data, k, generate_proof(from_data(data), k))
    ELSE {}

\* The fields of two requests: filenames and batch ids of one and two letters.
MessageFields ==
    [filename : {"a", "ab"}, batch_id : {"b", "bb"}, content : {<<"raw", "v1">>, <<"raw", "v2">>},
     timestamp : {ClockStart, ClockStart + 1}]

\* build_message of both handlers for the fields of two requests r and q, and
\* crypto::verify_signature of the signatures made for r over the messages of q.
CallBuildMessage(r, q) ==
    LET file_hash(x) == hex_encode(hash_leaf(x.content))
        up_msg(x) == upload_message(x.filename, x.batch_id, file_hash(x), x.content, x.timestamp)
        dn_msg(x) == download_message(x.filename, x.batch_id, x.timestamp)
    IN /\ LibIdle
       /\ pf' = [op |-> "message", r |-> r, q |-> q,
                 upload |-> <<up_msg(r), up_msg(q)>>,
                 download |-> <<dn_msg(r), dn_msg(q)>>,
                 upload_verifies |-> verify_signature("pkA", up_msg(q), Sign("pkA", up_msg(r))),
                 download_verifies |-> verify_signature("pkA", dn_msg(q), Sign("pkA", dn_msg(r)))]

\* The non-empty lists of up to MaxLeaves items out of two.
LibPairLists == UNION {[1..n -> {"x", "y"}] : n \in 1..MaxLeaves}

\* MerkleTree::from_data(a) and MerkleTree::from_leaf_hashes of the leaf hashes of
\* the items of b, and the root of each.
CallRoots(a, b) ==
    LET leaf_hashes(data) == [i \in 1..Len(data) |-> hash_leaf(data[i])]
    IN /\ LibIdle
       /\ pf' = [op |-> "roots",
                 leaves |-> <<leaf_hashes(a), leaf_hashes(b)>>,
                 from_data |-> from_data(a).root,
                 from_leaf_hashes |-> from_leaf_hashes(leaf_hashes(b)).root,
                 from_data_of_b |-> from_data(b).root]

\* One call of a library function on bounded inputs.
NextLib ==
    \/ \E a \in LibPairLists, b \in LibLists : CallRoots(a, b)
    \/ \E r \in MessageFields, q \in MessageFields : CallBuildMessage(r, q)
    \/ CallConstructorsEmpty
    \/ \E data \in LibLists : \E k \in Len(data)..(Len(data) + 2) \cup {10} :
          CallGenerateProofBeyond(data, k)
    \/ \E n \in LibNows : \E t \in LibTimestamps(n) : CallValidateTimestamp(n, t)
    \/ \E data \in LibLists : CallConstructors(data)
    \/ \E data \in LibLists : \E k \in 0..(Len(data) - 1) : CallGenerateProof(data, k)
    \/ \E data \in LibLists : \E k \in 0..(Len(data) - 1) :
          \E c \in LibChanges(data, k) : CallChangedProof(data, k, c)

SpecLib == Init /\ [][NextLib]_vars
\* ---------------------------------------------------------------- library properties

\* C14 as stated: validate_timestamp_default accepts a millisecond timestamp exactly
\* when it lies between the current time minus 300 s and the current time plus
\* 60 s, and its arithmetic stays within the unsigned word.
C14_WindowInMilliseconds ==
    pf.op = "validate_timestamp" =>
        /\ pf.res.ok <=> (/\ pf.timestamp >= pf.now_ms - 1000 * DEFAULT_MAX_AGE_SECONDS
                          /\ pf.timestamp <= pf.now_ms + 1000 * DEFAULT_MAX_CLOCK_SKEW_SECONDS)
        /\ ~pf.res.overflow

\* C14 amended: validate_timestamp_default accepts a timestamp exactly when its
\* whole second is at most 300 whole seconds before and at most 60 whole seconds
\* after the whole second of the current time: every timestamp in the window
\* [now - 300 s, now + 60 s] is accepted, every accepted one lies less than one
\* second outside it, now - 400 s and now + 120 s are rejected, now - 60 s and
\* now + 30 s are accepted, and the arithmetic stays within the unsigned word.
C14_WindowInWholeSeconds ==
    pf.op = "validate_timestamp" =>
        LET n == pf.now_ms
            t == pf.timestamp
        IN /\ pf.res.ok <=> (/\ t \div 1000 >= n \div 1000 - DEFAULT_MAX_AGE_SECONDS
                             /\ t \div 1000 <= n \div 1000 + DEFAULT_MAX_CLOCK_SKEW_SECONDS)
           /\ (t >= n - 300000 /\ t <= n + 60000) => pf.res.ok
           /\ pf.res.ok => (t > n - 301000 /\ t < n + 61000)
           /\ t \in {n - 400000, n + 120000} => ~pf.res.ok
           /\ t \in {n - 60000, n + 30000} => pf.res.ok
           /\ ~pf.res.overflow

\* A timestamp 300.999 s old was accepted.
C14_Witness ==
    /\ pf.op = "validate_timestamp"
    /\ pf.timestamp = pf.now_ms - 300999
    /\ pf.res.ok

\* C15 as stated: a request sent a second time is rejected, with 401, exactly when
\* its timestamp is more than 300 s older than the current time; otherwise it
\* passes every check and is processed again.
C15_DuplicateRejectedIffAged ==
    (rq.pc = "responded" /\ rq.dup) =>
        /\ rq.status = 401 <=> now - rq.req.timestamp > 1000 * DEFAULT_MAX_AGE_SECONDS
        /\ rq.status # 401 => rq.fail = ""

\* C15 amended: a request sent a second time is rejected, with 401 by the timestamp
\* check, exactly when the whole second of its timestamp is more than 300 whole
\* seconds before the whole second of the current time; otherwise it passes every
\* check and is processed again, an upload storing its file again.
C15_DuplicateRejectedIffAgedSeconds ==
    (rq.pc = "responded" /\ rq.dup) =>
        /\ rq.status = 401 <=>
              now \div 1000 - rq.req.timestamp \div 1000 > DEFAULT_MAX_AGE_SECONDS
        /\ rq.status = 401 => rq.fail = "timestamp"
        /\ rq.status # 401 => rq.fail = ""
        /\ (rq.status # 401 /\ rq.req.kind = "upload") => (rq.status = 200 /\ nUp >= 2)
        /\ now - rq.req.timestamp >= 600000 => rq.status = 401

\* A download sent again 300.5 s after its timestamp was answered 200 again.
C15_Witness ==
    /\ rq.pc = "responded"
    /\ rq.dup
    /\ rq.req.kind = "download"
    /\ now - rq.req.timestamp = 300500
    /\ rq.status = 200

\* The stored state: every file of every directory but the lock files.
StoredState(store) == [d \in Dirs |-> DataOf(store[d])]

\* Every check of the upload handler succeeds on the request at the time it
\* arrived.
UploadChecksPass(req, at) ==
    /\ validate_filename(req.filename)
    /\ validate_timestamp_default(at, req.timestamp).ok
    /\ req.file_hash = hex_encode(hash_leaf(req.content))
    /\ hex_decode(req.public_key).ok
    /\ verify_signature(hex_decode(req.public_key).val,
                        upload_message(req.filename, req.batch_id, req.file_hash, req.content,
                                       req.timestamp),
                        req.signature)

\* C16: an upload reaches the storage call only after filename validation, the
\* timestamp check, the hash check and signature verification have succeeded, it
\* is answered 200 only after the storage call returned Ok, and when it is
\* answered with an error the stored state (files, indexes, cached trees and the
\* client registry) is the state at the arrival of the request.
C16_FailedUploadLeavesNoTrace ==
    /\ (rq.req.kind = "upload" /\ rq.pc \in {"authenticated", "storing"}) =>
          UploadChecksPass(rq.req, rq.at)
    /\ (rq.req.kind = "upload" /\ rq.pc = "responded" /\ rq.status = 200) =>
          (UploadChecksPass(rq.req, rq.at) /\ up["u1"].result = "ok")
    /\ (rq.req.kind = "upload" /\ rq.pc # "storing" /\ rq.pc # "responded") => ~Active("u1")
    /\ (rq.req.kind = "upload" /\ rq.pc = "responded" /\ rq.status # 200) =>
          StoredState(fs) = StoredState(rq.pre)

\* The key pair that signed a request.
SignerOf(req) == req.signature[2]

\* C17: a download is answered 200 only if its signature verifies over filename,
\* batch_id and timestamp under the key that was registered for its client_id
\* when it arrived; a download whose client_id is unregistered, or is not the
\* client_id of the key pair that signed it, never gets as far as reading the
\* batch and is answered 401; and a download changes nothing that is stored, the
\* client registry included.
C17_DownloadNeedsRegisteredKey ==
    rq.req.kind = "download" =>
        LET req == rq.req
            stored == load_public_key(rq.pre, req.client_id)
            foreign == ~stored.some \/ compute_client_id(SignerOf(req)) # req.client_id
        IN /\ (rq.pc = "responded" /\ rq.status = 200) =>
                 /\ stored.some
                 /\ verify_signature(stored.key,
                       download_message(req.filename, req.batch_id, req.timestamp),
                       req.signature)
           /\ foreign => rq.pc \notin {"authenticated", "proving"}
           /\ (foreign /\ rq.pc = "responded") => rq.status = 401
           /\ StoredState(fs) = StoredState(rq.pre)

C19_ProofRecomputesRoot ==
    pf.op = "proof" =>
        /\ pf.proof.ok
        /\ pf.proof.leaf_index = pf.k
        /\ pf.proof.leaf_hash = pf.tree.leaves[pf.k + 1]
        /\ Len(pf.proof.path) = Len(pf.tree.levels) - 1
        /\ pf.root = pf.tree.root

\* The proof of the last leaf of a three-leaf tree, which is its own sibling at
\* the leaf level and has its sibling on the left above, recomputed the root.
C19_Witness ==
    /\ pf.op = "proof"
    /\ num_leaves(pf.tree) = 3
    /\ pf.k = 2
    /\ pf.proof.path[1].hash = pf.proof.leaf_hash
    /\ pf.proof.path[2].is_left
    /\ pf.root = pf.tree.root

\* C20 as stated: every single change of a proof (another hash in one path entry,
\* one is_left flipped, the leaf hash of other data) makes the recomputed root
\* differ from the root of the tree.
C20_AnyChangeBreaksProof ==
    pf.op = "changed" => pf.root # pf.tree.root

\* C20 amended: a single change of a proof makes the recomputed root differ from
\* the root of the tree, except the flip of is_left in a path entry whose hash is
\* the hash the recomputation has reached at that entry (a node paired with itself
\* or with an equal sibling), which leaves the recomputed root equal to the root.
C20_ChangeBreaksProof ==
    pf.op = "changed" =>
        LET selfPaired == /\ pf.change.kind = "flip"
                          /\ pf.proof.path[pf.change.i].hash = pf.at
        IN pf.root = pf.tree.root <=> selfPaired

\* One is_left of a proof whose sibling differs was flipped and the recomputed root
\* is not the root of the tree.
C20_Witness ==
    /\ pf.op = "changed"
    /\ pf.change.kind = "flip"
    /\ pf.proof.path[pf.change.i].hash # pf.at
    /\ Len(pf.proof.path) = 2
    /\ pf.root # pf.tree.root

\* ---------------------------------------------------------------- batch properties

\* The filename index, the leaves of the cached tree in order, and its root.
BatchView(ds) ==
    [index |-> FilenameIndex(ds).filenames,
     leaves |-> IF ds[MerkleTreeName] = Absent THEN <<>>
                ELSE Tree_load(ds[MerkleTreeName]).tree.leaves,
     root |-> CachedRoot(ds)]

\* A sequence of uploads run one after the other on an empty batch: the state it
\* leaves and whether every upload returned Ok.
RECURSIVE RunUploads(_, _)
RunUploads(ds, reqs) ==
    IF reqs = <<>> THEN [ok |-> TRUE, ds |-> ds]
    ELSE LET r == AtomicStore(ds, reqs[1][1], reqs[1][2], hash_leaf(reqs[1][2]))
         IN IF r.ok THEN RunUploads(r.ds, Tail(reqs)) ELSE [ok |-> FALSE, ds |-> r.ds]

\* C21: when all uploads into a batch have returned successfully, the filename
\* index, the leaf order and the root are those left by every other sequence of
\* successful uploads that ends with the same filename -> content pairs: the two
\* uploads in the other order, or, for a filename uploaded twice, the upload of
\* its final content alone.
C21_RootDependsOnFinalMapOnly ==
    LET used == {u \in Uploaders : up[u].id # 0}
        dir == <<"cA", "b1">>
        final == {<<up[u].filename, gh.committed[dir][up[u].filename]>> : u \in used}
        seqs == {s \in UNION {[1..n -> FileNames \X UploadContents] : n \in 1..2} :
                    /\ RunUploads(EmptyDir, s).ok
                    /\ {<<s[i][1], s[Len(s)][2]>> : i \in {j \in 1..Len(s) : s[j][1] = s[Len(s)][1]}}
                         \cup {s[i] : i \in {j \in 1..Len(s) : s[j][1] # s[Len(s)][1]}} = final}
    IN (/\ Cardinality(used) = 2
        /\ nUp = 2
        /\ \A u \in used : ~Active(u) /\ up[u].result = "ok") =>
            \A s \in seqs : BatchView(RunUploads(EmptyDir, s).ds) = BatchView(fs[dir])

\* ---------------------------------------------------------------- cancellation

\* The handler's future is dropped at an await of store_file_and_update_tree (the
\* client went away): nothing more of the body runs, LockGuard is dropped with
\* the future's locals, and the writes made so far stay.  No response is sent.
Abort(u) ==
    /\ up[u].pc \in {"lock", "file", "file_w", "meta", "meta_w", "leaf", "leaf_w", "tree", "tree_w"}
    /\ Return(u, "aborted", fs[UpDir(u)])
    /\ UNCHANGED <<fs, dn, cl, nUp, nDn, nEnv, now, sent, rq, pf>>

\* One upload at a time into one batch, each of which may be aborted, and
\* downloads of one file of the batch.
NextAbort ==
    \/ \E u \in {"u1"}, f \in StoreNames, v \in StoreContents :
          UploadRequest(u, "cA", "b1", f, v)
    \/ \E u \in {"u1"} : UploadStep(u)
    \/ \E u \in {"u1"} : Abort(u)
    \/ \E d \in Downloaders, f \in {"a.txt"} : DownloadRequest(d, "cA", "b1", f)
    \/ \E d \in Downloaders : DownloadStep(d)

SpecAbort == Init /\ [][NextAbort]_vars

\* C22: when an upload handler was aborted while store_file_and_update_tree was in
\* progress, the files, filename index, leaf-hash index and cached tree of the
\* batch are those before the call or those the complete call leaves, and a
\* download that runs afterwards with no upload in progress and answers 200
\* returns content whose leaf hash its proof connects to the cached root.
C22_AbortIsAllOrNothing ==
    /\ \A u \in Uploaders :
          (~Active(u) /\ up[u].result = "aborted") =>
              DataOf(up[u].post) \in
                  {DataOf(up[u].pre),
                   DataOf(AtomicStore(up[u].pre, up[u].filename, up[u].content,
                                      hash_leaf(up[u].content)).ds)}
    /\ \A d \in Downloaders :
          (Finished(d) /\ dn[d].clean /\ dn[d].resp.status = 200) =>
              compute_root(hex_decode(dn[d].resp.file_hash).val, ResponsePath(dn[d].resp))
                  = dn[d].root

\* C23: a download that comes to the proof step answers 500, with no content and
\* no proof, whenever the batch has no cached tree that loads or the leaf count of
\* the cached tree differs from the length of the filename index the request
\* loaded; otherwise it answers 200 with the proof the cached tree gives for the
\* position of the requested filename in the sorted filename index.
C23_StaleTreeIsServerError ==
    [][\A d \in Downloaders :
          (dn[d].pc = "proof" /\ dn'[d].pc = "idle") =>
              LET ds == fs[DnDir(d)]
                  missing == ds[MerkleTreeName] = Absent \/ ~Tree_load(ds[MerkleTreeName]).ok
                  tree == Tree_load(ds[MerkleTreeName]).tree
                  stale == num_leaves(tree) # Len(dn[d].filenames)
                  k == Position(SortStrings(dn[d].filenames), dn[d].filename)
              IN IF missing \/ stale
                 THEN dn'[d].resp = [NoResp EXCEPT !.status = 500]
                 ELSE /\ dn'[d].resp.status = 200
                      /\ k >= 0
                      /\ ResponsePath(dn'[d].resp) = generate_proof(tree, k).path]_vars

\* A download found a cached tree that loads but has fewer or more leaves than the
\* filename index, and answered 500.
C23_Witness ==
    \E d \in Downloaders :
        /\ Finished(d)
        /\ dn[d].resp.status = 500
        /\ dn[d].root # Absent
        /\ dn[d].resp.merkle_proof = <<>>
        /\ dn[d].resp.file_content = Absent

\* ---------------------------------------------------------------- single-item trees

\* C24: a tree built from exactly one item has the leaf hash of that item as its
\* root, with no hash_pair applied, and the proof of index 0 has an empty path;
\* a download of the file of a single-file batch, run while no upload into the
\* batch is running, answers 200 with an empty merkle_proof and a file_hash that
\* is the root of the cached tree.
C24_SingleItemTree ==
    /\ \A x \in UploadContents :
          /\ from_data(<<x>>).ok
          /\ from_data(<<x>>).root = hash_data(x)
          /\ from_leaf_hashes(<<hash_leaf(x)>>).root = hash_leaf(x)
          /\ generate_proof(from_data(<<x>>), 0).ok
          /\ generate_proof(from_data(<<x>>), 0).path = <<>>
    /\ \A d \in Downloaders :
          (/\ Finished(d)
           /\ dn[d].clean
           /\ FilenameIndex(dn[d].pre).ok
           /\ FilenameIndex(dn[d].pre).filenames = <<dn[d].filename>>) =>
              /\ dn[d].resp.status = 200
              /\ dn[d].resp.merkle_proof = <<>>
              /\ hex_decode(dn[d].resp.file_hash).val = dn[d].root

\* The index of the ancestor of leaf k at the level that is `up` levels above the
\* leaves.
RECURSIVE AncestorIndex(_, _)
AncestorIndex(k, up_levels) ==
    IF up_levels = 0 THEN k ELSE AncestorIndex(k, up_levels - 1) \div 2

\* C25: the path of generate_proof(k) has one entry per level below the root,
\* ordered from the leaf level upward; the entry of a level is the node next to
\* the current node (index + 1 for an even index, index - 1 for an odd one) with
\* is_left true exactly when the current index is odd, or, when that node does
\* not exist (last node of an odd-length level), the current node itself with
\* is_left false.  For three leaves h1, h2, h3 the root is
\* hash_pair(hash_pair(h1, h2), hash_pair(h3, h3)) and the proof of index 2 is
\* [(h3, false), (hash_pair(h1, h2), true)].
C25_ProofPathShape ==
    pf.op = "proof" =>
        LET lv == pf.tree.levels
            path == pf.proof.path
            h == pf.tree.leaves
        IN /\ Len(path) = Len(lv) - 1
           /\ \A l \in 1..Len(path) :
                 LET cur == AncestorIndex(pf.k, l - 1)
                     odd == cur % 2 = 1
                     sib == cur + 1 - 2 * (cur % 2)
                 IN IF sib < Len(lv[l])
                    THEN path[l] = [hash |-> lv[l][sib + 1], is_left |-> odd]
                    ELSE path[l] = [hash |-> lv[l][cur + 1], is_left |-> FALSE]
           /\ Len(h) = 3 =>
                 /\ pf.tree.root = hash_pair(hash_pair(h[1], h[2]), hash_pair(h[3], h[3]))
                 /\ pf.k = 2 => path = <<[hash |-> h[3], is_left |-> FALSE],
                                         [hash |-> hash_pair(h[1], h[2]), is_left |-> TRUE]>>

\* The proof of index 2 of a tree of three distinct leaves was generated.
C25_Witness ==
    /\ pf.op = "proof"
    /\ num_leaves(pf.tree) = 3
    /\ Cardinality(Range(pf.tree.leaves)) = 3
    /\ pf.k = 2
    /\ pf.proof.path = <<[hash |-> pf.tree.leaves[3], is_left |-> FALSE],
                         [hash |-> hash_pair(pf.tree.leaves[1], pf.tree.leaves[2]),
                          is_left |-> TRUE]>>

\* C26: from_data and from_leaf_hashes return Err(EmptyData) for an empty list and
\* a tree with at least one leaf, one per item, for every other list;
\* generate_proof(k) returns Err(InvalidLeafIndex(k)) for every k that is not
\* below the number of leaves and a proof for every k below it.
C26_EmptyAndOutOfRange ==
    /\ pf.op = "empty" => (~pf.a.ok /\ ~pf.b.ok)
    /\ pf.op = "constructors" =>
          /\ pf.a.ok /\ pf.b.ok
          /\ num_leaves(pf.a) = Len(pf.data) /\ num_leaves(pf.b) = Len(pf.data)
          /\ num_leaves(pf.a) >= 1
    /\ pf.op = "beyond" => (~pf.proof.ok /\ pf.proof.leaf_index = pf.k)
    /\ pf.op = "proof" => (pf.k < num_leaves(pf.tree) /\ pf.proof.ok)

\* generate_proof was called with the index just past the last leaf of a
\* two-leaf tree and returned the error.
C26_Witness ==
    /\ pf.op = "beyond"
    /\ num_leaves(pf.tree) = 2
    /\ pf.k = 2
    /\ ~pf.proof.ok

\* ---------------------------------------------------------------- locking

\* An execution of store_file_and_update_tree is between its first and its last write.
Writing(u) == up[u].pc \in {"file", "file_w", "meta", "meta_w", "leaf", "leaf_w", "tree", "tree_w"}
SameBatch(u, o) == up[u].client_id = up[o].client_id /\ up[u].batch_id = up[o].batch_id

\* C27: an execution of store_file_and_update_tree holds the exclusive lock of its
\* batch from before its first write until after its last, so no two executions
\* on one (client_id, batch_id) are between their first and last write at the
\* same time; and an execution waits for the lock only while an execution on the
\* same (client_id, batch_id) holds it.
C27_LockSerialisesBatch ==
    /\ \A u \in Uploaders : Writing(u) => lock[UpDir(u)] = u
    /\ \A u, o \in Uploaders : (u # o /\ Writing(u) /\ Writing(o)) => ~SameBatch(u, o)
    /\ \A u, o \in Uploaders :
          (up[u].pc = "lock" /\ lock[UpDir(u)] = o) => SameBatch(u, o)

\* ---------------------------------------------------------------- proof and stored bytes

\* The states of a batch directory that differ from ds in the stored bytes of one
\* file and have the filename index and the cached tree of ds.
ByteVariants(ds) ==
    {v \in {[ds EXCEPT ![g] = t] :
                g \in {n \in DataNames : ds[n] # Absent},
                t \in ForgedContents \cup ClientContents \cup UploadContents} :
        /\ v # ds
        /\ v[MetadataName] = ds[MetadataName]
        /\ v[MerkleTreeName] = ds[MerkleTreeName]}

\* C28: the merkle_proof of a download response depends on the cached tree and the
\* position of the requested filename in the filename index only: the same
\* request on a state that has the same filename index and cached tree and
\* differs in the stored bytes of a file is answered 200 with the same proof.
C28_ProofIgnoresStoredBytes ==
    (/\ Finished("d1")
     /\ dn["d1"].resp.status = 200
     /\ cl.pc \in {"dl", "verified"}
     /\ cl.env \subseteq {"tamper"}) =>
        \A v \in ByteVariants(fs[ClientDir]) :
            /\ AtomicDownload(v, dn["d1"].filename).status = 200
            /\ AtomicDownload(v, dn["d1"].filename).merkle_proof = dn["d1"].resp.merkle_proof

\* A download of a two-file batch was answered after the stored bytes of a file
\* had been replaced, with the proof the untouched batch gives.
C28_Witness ==
    /\ Finished("d1")
    /\ dn["d1"].resp.status = 200
    /\ cl.pc = "verified"
    /\ cl.env = {"tamper"}
    /\ cl.tampered[2] \in ForgedContents
    /\ Len(dn["d1"].resp.merkle_proof) = 1
    /\ ByteVariants(fs[ClientDir]) # {}

\* ---------------------------------------------------------------- reads during writes

\* The file an upload is writing (created, content not yet written), and the
\* file the next step of a download reads.
WriteTarget(u) ==
    CASE up[u].pc = "file_w" -> up[u].filename
      [] up[u].pc = "meta_w" -> MetadataName
      [] up[u].pc = "leaf_w" -> LeafHashesName
      [] up[u].pc = "tree_w" -> MerkleTreeName
      [] OTHER -> ""
ReadTarget(d) ==
    CASE dn[d].pc = "filenames" -> MetadataName
      [] dn[d].pc = "read" -> dn[d].filename
      [] dn[d].pc = "proof" -> MerkleTreeName
      [] OTHER -> ""

\* C29: a read of a batch file by a download (metadata.json, the requested file or
\* merkle_tree.json) that falls into a write of that file by
\* store_file_and_update_tree returns the content the file had before the write
\* or the content being written, never an empty or truncated file.
C29_ReadSeesWholeFile ==
    [][\A d \in Downloaders, u \in Uploaders :
          (/\ dn'[d].pc # dn[d].pc
           /\ ReadTarget(d) # ""
           /\ UpDir(u) = DnDir(d)
           /\ WriteTarget(u) = ReadTarget(d)) =>
              fs[DnDir(d)][ReadTarget(d)] \in
                  {up[u].pre[ReadTarget(d)], up[u].content, up[u].buf}]_vars

\* ---------------------------------------------------------------- append-only batches

\* The leaf count of the cached tree of a directory state; -1 when no tree loads.
LeafCount(ds) ==
    IF ds[MerkleTreeName] = Absent \/ ~Tree_load(ds[MerkleTreeName]).ok THEN -1
    ELSE num_leaves(Tree_load(ds[MerkleTreeName]).tree)

\* The batch state `after` has every filename of the index of `before`, at least
\* as many filenames, and at least as many leaves (compared where both load).
GrowsFrom(before, after) ==
    /\ (FilenameIndex(before).ok /\ FilenameIndex(after).ok) =>
          /\ Range(FilenameIndex(before).filenames) \subseteq Range(FilenameIndex(after).filenames)
          /\ Len(FilenameIndex(before).filenames) <= Len(FilenameIndex(after).filenames)
    /\ (LeafCount(before) >= 0 /\ LeafCount(after) >= 0) => LeafCount(before) <= LeafCount(after)

\* C30: a batch is append-only: no step of an upload or a download takes a
\* filename out of the filename index or makes the index or the cached tree
\* smaller, and when an upload has returned successfully the index and the tree
\* it leaves have everything the index and the tree had when it started.
C30_BatchIsAppendOnly ==
    [][/\ \A dir \in Dirs : GrowsFrom(fs[dir], fs'[dir])
       /\ \A u \in Uploaders :
             (up'[u].pc = "idle" /\ up'[u].result = "ok") =>
                 /\ FilenameIndex(up'[u].post).ok
                 /\ GrowsFrom(up'[u].pre, up'[u].post)]_vars

\* ---------------------------------------------------------------- filename validation

\* Filenames of requests: a regular name, the empty name, the special directories,
\* names with a separator or a NUL byte, and a name of 256 letters.
ValidationNames == {"a.txt", "", ".", "..", "a/b", "a\\b", "a<NUL>b", "a{256}"}

\* Requests of client cA for batch b1 under every filename of ValidationNames.
NextValidate ==
    \/ \E f \in ValidationNames :
          ReceiveUpload("pkA", "pkA", f, "b1", <<"raw", "v1">>, TRUE, now)
    \/ \E f \in ValidationNames : ReceiveDownload("cA", "pkA", f, "b1", now)
    \/ Validate
    \/ AuthenticateUpload
    \/ StoreUpload
    \/ \E u \in {"u1"} : UploadStep(u)
    \/ RespondUpload
    \/ AuthenticateDownload
    \/ ProveDownload
    \/ \E d \in {"d1"} : DownloadStep(d)
    \/ RespondDownload
    \/ Finish

SpecValidate == Init /\ [][NextValidate]_vars

\* The filename rules of the interface: non-empty, at most 255 characters, no NUL,
\* no separator, not "." or "..".
BreaksFilenameRules(filename) ==
    LET b == Bytes(filename)
    IN \/ Len(b) = 0
       \/ Len(b) > 255
       \/ \E i \in 1..Len(b) : b[i] \in {0, 47, 92}
       \/ filename \in {".", ".."}

\* C31: a request of either handler whose filename breaks the filename rules is
\* answered 400 by validation, with no signature verified and the stored state as
\* it was when the request arrived; a filename that keeps the rules is never
\* rejected by validation.
C31_BadFilenameIs400 ==
    rq.pc \notin {"idle", "received"} =>
        IF BreaksFilenameRules(rq.req.filename)
        THEN /\ rq.pc = "responded"
             /\ rq.status = 400
             /\ rq.fail \in {"fields", "filename"}
             /\ rq.client_id = ""
             /\ fs = rq.pre
        ELSE rq.fail \notin {"fields", "filename"}

\* ---------------------------------------------------------------- reused batch

\* Files the client uploaded into the batch before this run of
\* upload_from_directory, and the directories of regular files it uploads now.
EarlierNames == {"a.txt", "c.txt"}
ReuseDirectories == {dir \in ClientDirectories : DOMAIN dir \subseteq {"a.txt", "b.txt"}}

\* An upload request of an earlier run of the client for the same batch id.
EarlierUpload(f, p) ==
    /\ cl.pc = "start"
    /\ UploadRequest("u2", "cA", ClientBatch, f, encrypt_file(f, ClientBatch, p))

\* upload_from_directory starts when the earlier run has ended.
ClientRunAgain(dir) ==
    /\ ~Active("u2")
    /\ ClientReadDirectory(dir)

\* Earlier uploads of the client into the batch, then upload_from_directory.
NextReuse ==
    \/ \E f \in EarlierNames, p \in PlainTexts : EarlierUpload(f, p)
    \/ \E u \in Uploaders : UploadStep(u)
    \/ \E dir \in ReuseDirectories : ClientRunAgain(dir)
    \/ ClientSendUpload
    \/ ClientUploadResponse

SpecReuse == Init /\ [][NextReuse]_vars

\* C32: when upload_from_directory has saved its root hash, that root is the root
\* of the server's cached tree of the batch, also when the batch held files of
\* earlier uploads of the client.
C32_SavedRootIsServerRoot ==
    cl.pc = "saved" => cl.root_hash = hex_encode(CachedRoot(fs[ClientDir]))

\* ---------------------------------------------------------------- relational backend

\* The relational backend as the specification describes it: the stored objects of
\* a batch are the rows of files, leaf_hashes and merkle_trees with its
\* (client_id, batch_id), the append runs in one transaction, and SELECT ... FOR
\* UPDATE locks the leaf-hash rows of the batch.  fs[dir] holds the committed rows
\* of the batch (the leaf-hash rows under leaf_hashes.json, the merkle_trees row
\* under merkle_tree.json), lock[dir] the transaction holding the row locks.
DbBatchIds == {"b1", "b2"}
DbNames == {"a.txt", "b.txt"}
DbContents == {<<"raw", "v1">>, <<"raw", "v2">>}

\* The committed leaf-hash rows of a batch: filename -> hash.
LeafHashRows(ds) == LeafIndex(ds).map

\* The append operation is called: the transaction begins.
DbBegin(u, c, b, f, v) ==
    /\ nUp < MaxSeqUploads
    /\ UploadBegin(u, c, b, f, v)
    /\ UNCHANGED <<cl, nDn, nEnv, now, sent, rq, pf>>

\* SELECT ... FOR UPDATE on the leaf-hash rows of the batch: it waits while
\* another transaction holds the lock of a row it returns, and then locks the rows;
\* a batch without leaf-hash rows has no row to lock and none to wait for.
DbSelectForUpdate(u) ==
    LET rows == LeafHashRows(fs[UpDir(u)])
    IN /\ up[u].pc = "lock"
       /\ (DOMAIN rows # {}) => lock[UpDir(u)] = NoOne
       /\ lock' = IF DOMAIN rows # {} THEN [lock EXCEPT ![UpDir(u)] = u] ELSE lock
       /\ up' = [up EXCEPT ![u].pc = "tx", ![u].pre = fs[UpDir(u)], ![u].leaf_hashes = rows]
       /\ UNCHANGED <<fs, dn, cl, nUp, nDn, nEnv, gh, now, sent, rq, pf>>

\* The transaction writes the file row and its leaf-hash row and builds the tree
\* over the leaf hashes it selected and its own, sorted by filename.
DbBuildTree(u) ==
    LET rows == LeafHashes_insert(up[u].leaf_hashes, up[u].filename, up[u].leaf_hash)
    IN /\ up[u].pc = "tx"
       /\ up' = [up EXCEPT ![u].pc = "commit", ![u].leaf_hashes = rows,
                           ![u].buf = Tree_to_json(TreeStep(rows))]
       /\ UNCHANGED <<fs, lock, dn, cl, nUp, nDn, nEnv, gh, now, sent, rq, pf>>

\* COMMIT: the rows the transaction wrote become visible together and its row
\* locks are released.
DbCommit(u) ==
    /\ up[u].pc = "commit"
    /\ fs' = [fs EXCEPT ![UpDir(u)] =
                [@ EXCEPT ![up[u].filename] = up[u].content,
                          ![LeafHashesName] =
                              LeafHashes_to_json(LeafHashes_insert(LeafHashRows(fs[UpDir(u)]),
                                                                   up[u].filename,
                                                                   up[u].leaf_hash)),
                          ![MerkleTreeName] = up[u].buf]]
    /\ Return(u, "ok", fs'[UpDir(u)])
    /\ UNCHANGED <<dn, cl, nUp, nDn, nEnv, now, sent, rq, pf>>

\* Appends of one client into two batches of the relational backend.
NextDb ==
    \/ \E u \in Uploaders, b \in DbBatchIds, f \in DbNames, v \in DbContents :
          DbBegin(u, "cA", b, f, v)
    \/ \E u \in Uploaders : DbSelectForUpdate(u)
    \/ \E u \in Uploaders : DbBuildTree(u)
    \/ \E u \in Uploaders : DbCommit(u)

SpecDb == Init /\ [][NextDb]_vars

DirsOf(c) == {d \in Dirs : d # <<>> /\ d[1] = c}

\* C34: while a request authenticated as client c is handled, no stored object
\* under another client's client_id is created or changed (files, filename index,
\* leaf-hash index, cached tree, public key), whatever batch_id the request
\* carries, and a download authenticated as c that answers 200 has read a batch
\* directory of c.
C34_ClientsIsolated ==
    (rq.pc \in {"authenticated", "storing", "proving", "responded"} /\ rq.client_id # "") =>
        /\ \A d \in Dirs \ DirsOf(rq.client_id) : fs[d] = rq.pre[d]
        /\ (/\ rq.req.kind = "download"
            /\ rq.pc = "responded"
            /\ rq.status = 200) => DnDir("d1") \in DirsOf(rq.client_id)

\* ---------------------------------------------------------------- reserved names

\* The index, tree and lock files of a batch directory.
ReservedNames == {MetadataName, LeafHashesName, MerkleTreeName, LockName}

\* C35: the steps of an upload that write the uploaded bytes (File::create and
\* write_all on file_path) leave metadata.json, leaf_hashes.json, merkle_tree.json
\* and .lock of the batch as they were, and the steps that write the filename
\* index, the leaf-hash index and the tree leave the stored bytes of the uploaded
\* file as they were, for every filename validate_filename accepts.
C35_FileIsNotIndexOrTree ==
    [][\A u \in Uploaders :
          (validate_filename(up[u].filename) /\ up'[u].pc # up[u].pc) =>
              /\ up[u].pc \in {"file", "file_w"} =>
                    \A n \in ReservedNames : fs'[UpDir(u)][n] = fs[UpDir(u)][n]
              /\ up[u].pc \in {"meta", "meta_w", "leaf", "leaf_w", "tree", "tree_w"} =>
                    fs'[UpDir(u)][up[u].filename] = fs[UpDir(u)][up[u].filename]]_vars

\* ---------------------------------------------------------------- signing messages

\* C36: two download requests that differ in filename, batch_id or timestamp have
\* different signing messages, and so have two uploads that differ in filename,
\* batch_id, file_hash, content or timestamp; a signature made for one request
\* does not verify for a request with another filename or batch_id.
C36_MessagesAreInjective ==
    pf.op = "message" =>
        /\ <<pf.r.filename, pf.r.batch_id, pf.r.timestamp>>
              # <<pf.q.filename, pf.q.batch_id, pf.q.timestamp>> =>
                  /\ pf.download[1] # pf.download[2]
                  /\ ~pf.download_verifies
        /\ pf.r # pf.q =>
              /\ pf.upload[1] # pf.upload[2]
              /\ ~pf.upload_verifies

\* ---------------------------------------------------------------- re-submitted uploads

\* Uploads of client A of two contents for one file of one batch, each of which
\* may be sent again later, and the clock.
NextResubmit ==
    \/ \E v \in StoreContents : ReceiveUpload("pkA", "pkA", "a.txt", "b1", v, TRUE, now)
    \/ \E req \in sent : Replay(req)
    \/ Validate
    \/ AuthenticateUpload
    \/ StoreUpload
    \/ \E u \in {"u1"} : UploadStep(u)
    \/ RespondUpload
    \/ Finish
    \/ \E t \in ClockValues : Tick(t)

SpecResubmit == Init /\ [][NextResubmit]_vars

\* The batch directory an upload request is stored in.
RequestDir(req) == batch_dir(compute_client_id(hex_decode(req.public_key).val), req.batch_id)

\* An upload request seen before is submitted again while the file holds another
\* content, committed since.
Resubmitted ==
    /\ rq.pc \notin {"idle", "received"}
    /\ rq.dup
    /\ rq.req.kind = "upload"
    /\ rq.pre[RequestDir(rq.req)][rq.req.filename] \notin {Absent, rq.req.content}

\* The timestamp of the request was older than the replay window, in whole
\* seconds, when the request arrived.
Aged == (rq.at \div 1000) - (rq.req.timestamp \div 1000) > DEFAULT_MAX_AGE_SECONDS

\* C37 as stated: an earlier signed upload request for (f, v1), submitted again
\* after the upload of v2 has committed, does not change the stored content and
\* leaf hash of f.
C37_ResubmitCannotRevert ==
    Resubmitted =>
        /\ fs[RequestDir(rq.req)][rq.req.filename] = rq.pre[RequestDir(rq.req)][rq.req.filename]
        /\ fs[RequestDir(rq.req)][LeafHashesName] = rq.pre[RequestDir(rq.req)][LeafHashesName]

\* C37 amended: an earlier signed upload request for (f, v1), submitted again after
\* the upload of v2 has committed and when its timestamp is more than 300 whole
\* seconds older than the server clock, is answered 401 and leaves everything
\* stored as it was.
C37_AgedResubmitCannotRevert ==
    (Resubmitted /\ Aged) =>
        /\ rq.pc = "responded"
        /\ rq.status = 401
        /\ fs = rq.pre

\* The upload of v1 was sent again ten minutes later, when the file held v2, and
\* was rejected.
C37_Witness ==
    /\ Resubmitted
    /\ Aged
    /\ rq.pc = "responded"
    /\ rq.status = 401
    /\ rq.req.content = <<"raw", "v1">>
    /\ fs[<<"cA", "b1">>]["a.txt"] = <<"raw", "v2">>
    /\ LeafHashRows(fs[<<"cA", "b1">>])["a.txt"] = hex_encode(hash_leaf(<<"raw", "v2">>))

\* ---------------------------------------------------------------- root injectivity

\* C38 as stated: two leaf-hash sequences that differ in length or in any position
\* never produce the same root under from_leaf_hashes / from_data.
C38_RootIsInjective ==
    (pf.op = "roots" /\ pf.leaves[1] # pf.leaves[2]) =>
        /\ pf.from_data # pf.from_leaf_hashes
        /\ pf.from_data # pf.from_data_of_b

\* C38 amended: two leaf-hash sequences of the same length that differ in any
\* position never produce the same root under from_leaf_hashes / from_data.
C38_RootIsInjectiveAtEqualLength ==
    (pf.op = "roots" /\ pf.leaves[1] # pf.leaves[2] /\ Len(pf.leaves[1]) = Len(pf.leaves[2])) =>
        /\ pf.from_data # pf.from_leaf_hashes
        /\ pf.from_data # pf.from_data_of_b

\* The roots of two lists of three leaves that differ in their last leaf only,
\* which is the one paired with itself.
C38_Witness ==
    /\ pf.op = "roots"
    /\ Len(pf.leaves[1]) = 3
    /\ Len(pf.leaves[2]) = 3
    /\ pf.leaves[1][1] = pf.leaves[2][1]
    /\ pf.leaves[1][2] = pf.leaves[2][2]
    /\ pf.leaves[1][3] # pf.leaves[2][3]
    /\ pf.from_data # pf.from_leaf_hashes

\* ---------------------------------------------------------------- lock release and progress

\* An upload request of client A.
FairRequest(u, b, f) ==
    /\ nUp < MaxUploads
    /\ UploadBegin(u, "cA", b, f, <<"raw", "v1">>)
    /\ UNCHANGED <<cl, nDn, nEnv, now, sent, rq, pf>>

NextFair ==
    \/ \E u \in Uploaders, b \in {"b1", "b2"}, f \in {"a.txt"} : FairRequest(u, b, f)
    \/ \E u \in Uploaders : UploadStep(u)
    \/ \E u \in Uploaders : IoError(u)

\* The runtime polls every task that can take a step, and an upload blocked in
\* lock_exclusive is not passed over for ever by later callers.
Fairness ==
    \A u \in Uploaders : WF_vars(UploadStep(u)) /\ SF_vars(AcquireLock(u))

SpecFair == Init /\ [][NextFair]_vars /\ Fairness

\* The batch directories whose lock upload u holds.
LocksOf(u) == {d \in Dirs : lock[d] = u}

====
